---------------------------- MODULE Spec2Model ----------------------------
(***************************************************************************)
(* A model of pbtools.pbtranscript.Classifier: read-name parsing, the      *)
(* primer table builder, and the two-phase run (primer trimming, then      *)
(* chimera detection) with its chunked external searches.                  *)
(*                                                                         *)
(* Text is modelled as sequences of symbols.  A read name is a sequence    *)
(* over NameChars, in which the literal "ccs" is one symbol; a DNA         *)
(* sequence is a sequence over {"A","C","G","T"}.                          *)
(***************************************************************************)
EXTENDS Integers, Sequences, FiniteSets, TLC

VARIABLES
    pb_in,      \* PBRead.__init__: the read handed to the constructor
    pb_out,     \* PBRead.__init__: the constructed object, or the error raised
    pp_window,  \* _processPrimers: window_size
    pp_revcmp,  \* _processPrimers: revcmp_primers
    pp_file,    \* _processPrimers: the records of primer_fn read so far
    pp_st,      \* _processPrimers: the loop's locals (primers, primerComboId)
    pp_pc,      \* _processPrimers: "read", "write", "done" or "error"
    pp_out,     \* _processPrimers: the content of primer_out_fn
    pp_ret,     \* _processPrimers: the value returned
    cfg,        \* Classifier.__init__: cpus, ignore_polyA, change_read_id, opts
    fs,         \* the files the run reads and writes
    pc,         \* Classifier.run: the step the run is at
    loc,        \* the locals and attributes the run's steps share
    summary,    \* Classifier.summary: the counters
    workers,    \* the phmmer processes of the current phase, by chunk
    exc,        \* the exception that ended the run
    log,        \* what _trimBarCode decided for each read, in order
    call,       \* a method called on its own: its name and its arguments
    ret         \* what the call returned

nameVars == <<pb_in, pb_out>>
primerVars == <<pp_window, pp_revcmp, pp_file, pp_st, pp_pc, pp_out, pp_ret>>
runVars == <<cfg, fs, pc, loc, summary, workers, exc, log>>
callVars == <<call, ret>>
vars == <<nameVars, primerVars, runVars, callVars>>

(***************************************************************************)
(* Bounds of the model.                                                    *)
(***************************************************************************)
MaxNameLen == 7
MaxPrimerRecs == 4
MaxReads == 2
MaxCpus == 2

(***************************************************************************)
(* Helpers on sequences.                                                   *)
(***************************************************************************)
SeqsUpTo(S, n) == UNION {[1..k -> S] : k \in 0..n}

None == <<"None">>
Absent == <<"absent">>

IdleName == pb_in = None /\ pb_out = None
IdlePrimers ==
    /\ pp_window = 0 /\ pp_revcmp = FALSE /\ pp_file = <<>> /\ pp_st = None
    /\ pp_pc = "idle" /\ pp_out = Absent /\ pp_ret = None
IdleCall == call = [fn |-> "none"] /\ ret = [kind |-> "unset"]
IdleRun ==
    /\ cfg = None /\ fs = None /\ pc = "idle" /\ loc = None
    /\ summary = None /\ workers = None /\ exc = None /\ log = None

(***************************************************************************)
(* PBRead.__init__ (Classifier.py 40-67).                                  *)
(***************************************************************************)
NameChars == {"m", "/", "1", "_", "ccs"}
DigitChars == {"0", "1", "2", "3", "4", "5", "6", "7", "8", "9"}

IsDigit(c) == c \in DigitChars

DigitVal(c) ==
    CASE c = "0" -> 0 [] c = "1" -> 1 [] c = "2" -> 2 [] c = "3" -> 3
      [] c = "4" -> 4 [] c = "5" -> 5 [] c = "6" -> 6 [] c = "7" -> 7
      [] c = "8" -> 8 [] c = "9" -> 9

\* int(x) of a string of decimal digits
RECURSIVE ToInt(_)
ToInt(s) ==
    IF s = <<>> THEN 0
    ELSE 10 * ToInt(SubSeq(s, 1, Len(s) - 1)) + DigitVal(s[Len(s)])

\* \d+ is greedy: the last index of the maximal run of digits that starts at
\* index i (i - 1 when s[i] is no digit).
RECURSIVE DigitRunEnd(_, _)
DigitRunEnd(s, i) ==
    IF i <= Len(s) /\ IsDigit(s[i]) THEN DigitRunEnd(s, i + 1) ELSE i - 1

Max(S) == CHOOSE x \in S : \A y \in S : y <= x

\* re.search(r"(.+)/(\d+)/ccs", name): the slash positions j at which
\* "/(\d+)/ccs" matches with at least one symbol before it.
CcsSlashes(s) ==
    {j \in 2..Len(s) :
        /\ s[j] = "/"
        /\ LET k == DigitRunEnd(s, j + 1)
           IN  /\ k >= j + 1
               /\ k + 2 <= Len(s)
               /\ s[k + 1] = "/"
               /\ s[k + 2] = "ccs"}

\* re.search(r"(.+)/(\d+)$", name)
BareSlashes(s) ==
    {j \in 2..Len(s) :
        /\ s[j] = "/"
        /\ LET k == DigitRunEnd(s, j + 1)
           IN  k >= j + 1 /\ k = Len(s)}

\* re.search(r"(.+)/(\d+)/(\d+)_(\d+)", name)
SubreadSlashes(s) ==
    {j \in 2..Len(s) :
        /\ s[j] = "/"
        /\ LET k == DigitRunEnd(s, j + 1)
           IN  /\ k >= j + 1
               /\ k + 1 <= Len(s)
               /\ s[k + 1] = "/"
               /\ LET l == DigitRunEnd(s, k + 2)
                  IN  /\ l >= k + 2
                      /\ l + 1 <= Len(s)
                      /\ s[l + 1] = "_"
                      /\ DigitRunEnd(s, l + 2) >= l + 2}

ValueError == [kind |-> "error", error |-> "ValueError"]
Unset == [kind |-> "unset"]

\* (.+) is greedy, so the match uses the last slash at which the rest of the
\* pattern matches.  m1, m2, m3: the slashes at which the three patterns match.
PBReadBuild(read, m1, m2, m3) ==
    LET s   == read.name
        m   == IF m1 # {} THEN m1 ELSE m2
    IN  IF m # {}
        THEN LET j == Max(m)
             IN  [kind |-> "read", name |-> s, sequence |-> read.sequence,
                  isCCS |-> TRUE,
                  movie |-> SubSeq(s, 1, j - 1),
                  zmw |-> ToInt(SubSeq(s, j + 1, DigitRunEnd(s, j + 1))),
                  start |-> 0, end |-> Len(read.sequence)]
        ELSE IF m3 # {}
        THEN LET j == Max(m3)
                 k == DigitRunEnd(s, j + 1)
                 l == DigitRunEnd(s, k + 2)
                 e == DigitRunEnd(s, l + 2)
             IN  [kind |-> "read", name |-> s, sequence |-> read.sequence,
                  isCCS |-> FALSE,
                  movie |-> SubSeq(s, 1, j - 1),
                  zmw |-> ToInt(SubSeq(s, j + 1, k)),
                  start |-> ToInt(SubSeq(s, k + 2, l)),
                  end |-> ToInt(SubSeq(s, l + 2, e))]
        ELSE ValueError

\* Mutant: the bare pattern without its $ anchor.
PBReadInit_NoAnchor(read) ==
    PBReadBuild(read, CcsSlashes(read.name),
                {j \in 2..Len(read.name) :
                    /\ read.name[j] = "/"
                    /\ DigitRunEnd(read.name, j + 1) >= j + 1},
                SubreadSlashes(read.name))

PBReadInit(read) ==
    PBReadBuild(read, CcsSlashes(read.name), BareSlashes(read.name),
                SubreadSlashes(read.name))

(***************************************************************************)
(* Specification SpecName: PBRead.__init__ applied to every name of at     *)
(* most MaxNameLen symbols.                                                *)
(***************************************************************************)
NameSpecSeqs == {<<"A">>, <<"A", "C", "G">>}

InitName ==
    /\ pb_in \in [name : SeqsUpTo(NameChars, MaxNameLen) \ {<<>>},
                  sequence : NameSpecSeqs]
    /\ pb_out = Unset
    /\ IdlePrimers
    /\ IdleRun
    /\ IdleCall

ParseName ==
    /\ pb_out = Unset
    /\ pb_out' = PBReadInit(pb_in)
    /\ UNCHANGED <<pb_in, primerVars, runVars, callVars>>

NextName == ParseName

SpecName == InitName /\ [][NextName]_vars

(***************************************************************************)
(* Exceptions.                                                             *)
(***************************************************************************)
NoExc == [type |-> "none", msg |-> "none"]
ClassifierException(msg) == [type |-> "ClassifierException", msg |-> msg]

(***************************************************************************)
(* DNA sequences.                                                          *)
(***************************************************************************)
Complement(c) ==
    CASE c = "A" -> "T" [] c = "T" -> "A" [] c = "C" -> "G" [] c = "G" -> "C"

\* Mutant: the complement, not reversed
Revcmp_ComplementOnly(s) == [i \in 1..Len(s) |-> Complement(s[i])]

\* Utils.revcmp
Revcmp(s) == [i \in 1..Len(s) |-> Complement(s[Len(s) + 1 - i])]

\* "c" * n
Rep(c, n) == [i \in 1..n |-> c]

\* s.find(sub) >= 0
Find(s, sub) ==
    \E i \in 0..(Len(s) - Len(sub)) : SubSeq(s, i + 1, i + Len(sub)) = sub

(***************************************************************************)
(* Classifier._processPrimers (Classifier.py 184-282).  A primer name is   *)
(* the tuple of the parts it is formatted from: "F0" is <<"F", 0>> and     *)
(* "F0_revcmp" is <<"F", 0, "_revcmp">>.                                   *)
(***************************************************************************)
TagLen == 4

PrimerLoopInit == [i |-> 0, primerComboId |-> -1, primers |-> <<>>,
                   exc |-> NoExc]

\* Mutant: only equality of Fi and revcmp(Ri) is tested.
PrimersRevcmpIdentical_EqualOnly(fwdF, revcmpR) == fwdF = revcmpR

\* Line 248: Fi and Ri are reverse complementarily identical.
PrimersRevcmpIdentical(fwdF, revcmpR) ==
    Find(fwdF, revcmpR) \/ Find(revcmpR, fwdF)

\* Mutant: a primer as long as the window is rejected too.
PrimerTooLong_Strict(sequence, window_size) == Len(sequence) >= window_size

\* Line 232
PrimerTooLong(sequence, window_size) == Len(sequence) > window_size

\* The records appended for the reverse primer r of a pair (lines 241-274).
ReversePrimerRecords(st, r, primerComboId, expectedName, revcmp_primers) ==
    LET fwdF    == st.primers[Len(st.primers)][2]
        fwdR    == r.sequence
        revcmpF == Revcmp(fwdF)
        revcmpR == Revcmp(fwdR)
    IN  IF PrimersRevcmpIdentical(fwdF, revcmpR)
        THEN IF ~revcmp_primers
             THEN << <<expectedName, revcmpR \o Rep("T", TagLen)>> >>
             ELSE << <<expectedName, Rep("A", TagLen) \o fwdR>>,
                     << <<"F", primerComboId, "_revcmp">>, revcmpF>>,
                     << <<"R", primerComboId, "_revcmp">>,
                        revcmpR \o Rep("T", TagLen)>> >>
        ELSE IF ~revcmp_primers
             THEN << <<expectedName, revcmpR>> >>
             ELSE << <<expectedName, fwdR>>,
                     << <<"F", primerComboId, "_revcmp">>, revcmpF>>,
                     << <<"R", primerComboId, "_revcmp">>, revcmpR>> >>

\* One iteration of the loop over the records of primer_fn (lines 219-274):
\* st holds the locals, r is the record the reader yields.
PrimerStep(st, r, window_size, revcmp_primers) ==
    LET direction     == IF st.i % 2 = 0 THEN "F" ELSE "R"
        primerComboId == IF st.i % 2 = 0 THEN st.primerComboId + 1
                         ELSE st.primerComboId
        expectedName  == <<direction, primerComboId>>
        next          == [st EXCEPT !.i = st.i + 1,
                                    !.primerComboId = primerComboId]
    IN  IF r.name # expectedName
        THEN [next EXCEPT !.exc = ClassifierException("order")]
        ELSE IF PrimerTooLong(r.sequence, window_size)
        THEN [next EXCEPT !.exc = ClassifierException("length")]
        ELSE IF direction = "F"
        THEN [next EXCEPT !.primers =
                              Append(st.primers, <<expectedName, r.sequence>>)]
        ELSE [next EXCEPT !.primers =
                 st.primers \o ReversePrimerRecords(st, r, primerComboId,
                                                    expectedName,
                                                    revcmp_primers)]

\* Mutant: range(0, primerComboId)
PrimerIndices_OffByOne(st) == 0..(st.primerComboId - 1)

\* range(0, primerComboId + 1)
PrimerIndices(st) == 0..st.primerComboId

\* The loop over all the records of a primer file
RECURSIVE PrimerLoop(_, _, _, _, _)
PrimerLoop(st, file, k, window_size, revcmp_primers) ==
    IF k > Len(file) \/ st.exc # NoExc THEN st
    ELSE PrimerLoop(PrimerStep(st, file[k], window_size, revcmp_primers),
                    file, k + 1, window_size, revcmp_primers)

\* _processPrimers(primer_fn, window_size, primer_out_fn, revcmp_primers):
\* the exception raised, what is written to primer_out_fn, the value returned
ProcessPrimers(file, window_size, revcmp_primers) ==
    LET st == PrimerLoop(PrimerLoopInit, file, 1, window_size, revcmp_primers)
    IN  [exc |-> st.exc, primers |-> st.primers, indices |-> PrimerIndices(st)]

(***************************************************************************)
(* Specification SpecPrimers: _processPrimers on every primer file of at   *)
(* most MaxPrimerRecs records drawn from PrimerNames and PrimerSeqs, in    *)
(* both modes.                                                             *)
(***************************************************************************)
PrimerSeqs == {<<"A">>, <<"T">>, <<"A", "T">>, <<"A", "A">>, <<"T", "T">>,
               <<"A", "C">>, <<"G", "T">>, <<"A", "A", "T">>}
PrimerWindows == {1, 2}
PrimerNames == {"F", "R"} \X (0..((MaxPrimerRecs - 1) \div 2))
PrimerRecords == [name : PrimerNames, sequence : PrimerSeqs]

\* what primer_out_fn holds when an earlier run has written it
OldLibrary == <<"library of an earlier run">>

InitPrimers ==
    /\ pp_window \in PrimerWindows
    /\ pp_revcmp \in BOOLEAN
    /\ pp_file = <<>>
    /\ pp_st = PrimerLoopInit
    /\ pp_pc = "read"
    /\ pp_out \in {Absent, OldLibrary}
    /\ pp_ret = None
    /\ IdleName
    /\ IdleRun
    /\ IdleCall

\* Mutant: primer_out_fn is opened for writing while the records are read
PrimerRead_OpenFirst ==
    /\ pp_pc = "read"
    /\ Len(pp_file) < MaxPrimerRecs
    /\ \E r \in PrimerRecords :
          LET st == PrimerStep(pp_st, r, pp_window, pp_revcmp)
          IN  /\ pp_file' = Append(pp_file, r)
              /\ pp_st' = st
              /\ pp_pc' = IF st.exc # NoExc THEN "error" ELSE "read"
    /\ pp_out' = <<>>
    /\ UNCHANGED <<pp_window, pp_revcmp, pp_ret, nameVars, runVars, callVars>>

\* The reader yields one more record and the loop body runs on it.
PrimerRead ==
    /\ pp_pc = "read"
    /\ Len(pp_file) < MaxPrimerRecs
    /\ \E r \in PrimerRecords :
          LET st == PrimerStep(pp_st, r, pp_window, pp_revcmp)
          IN  /\ pp_file' = Append(pp_file, r)
              /\ pp_st' = st
              /\ pp_pc' = IF st.exc # NoExc THEN "error" ELSE "read"
    /\ UNCHANGED <<pp_window, pp_revcmp, pp_out, pp_ret, nameVars, runVars, callVars>>

\* The reader is exhausted: lines 275-278.
PrimerEof ==
    /\ pp_pc = "read"
    /\ pp_pc' = "write"
    /\ UNCHANGED <<pp_window, pp_revcmp, pp_file, pp_st, pp_out, pp_ret,
                   nameVars, runVars, callVars>>

\* Lines 278-282: the primers are written and the indices returned.
PrimerWrite ==
    /\ pp_pc = "write"
    /\ pp_out' = pp_st.primers
    /\ pp_ret' = PrimerIndices(pp_st)
    /\ pp_pc' = "done"
    /\ UNCHANGED <<pp_window, pp_revcmp, pp_file, pp_st, nameVars, runVars, callVars>>

NextPrimers == PrimerRead \/ PrimerEof \/ PrimerWrite

SpecPrimers == InitPrimers /\ [][NextPrimers]_vars

(***************************************************************************)
(* Optional values: None is the empty tuple, a value x is <<x>>.           *)
(***************************************************************************)
Nothing == <<>>
Some(x) == <<x>>
IsSome(o) == o # <<>>
TheValue(o) == o[1]

\* seq[a:b] for 0 <= a and 0 <= b
Slice(s, a, b) == SubSeq(s, a + 1, IF b > Len(s) THEN Len(s) ELSE b)

(***************************************************************************)
(* Rows of a phmmer dom file, as DOMReader yields them:                    *)
(* [sid, pid, score, sStart, sEnd, sLen, pStart].                          *)
(***************************************************************************)
MaxEdgeOffset == 48

EmptyDict == [x \in {} |-> 0]

\* Mutant: on equal scores the later row replaces the one kept
KeepBest_LastWins(bestOf, sid, r) ==
    LET d    == IF sid \in DOMAIN bestOf THEN bestOf[sid] ELSE EmptyDict
        rr   == [r EXCEPT !.sid = sid]
        newd == [q \in DOMAIN d \cup {r.pid} |->
                    IF q = r.pid /\ (q \notin DOMAIN d \/ d[q].score <= r.score)
                    THEN rr ELSE d[q]]
    IN  [x \in DOMAIN bestOf \cup {sid} |-> IF x = sid THEN newd ELSE bestOf[x]]

\* bestOf[sid][pid] = r if r beats the record kept (lines 394-399)
KeepBest(bestOf, sid, r) ==
    LET d    == IF sid \in DOMAIN bestOf THEN bestOf[sid] ELSE EmptyDict
        rr   == [r EXCEPT !.sid = sid]
        newd == IF r.pid \notin DOMAIN d \/ d[r.pid].score < r.score
                THEN [q \in DOMAIN d \cup {r.pid} |->
                         IF q = r.pid THEN rr ELSE d[q]]
                ELSE d
    IN  [x \in DOMAIN bestOf \cup {sid} |-> IF x = sid THEN newd ELSE bestOf[x]]

EndsWith(sid, suffix) == Len(sid) > 0 /\ sid[Len(sid)] = suffix
StripSuffix(sid) == SubSeq(sid, 1, Len(sid) - 1)

\* Classifier._getBestFrontBackRecord: the loop from row k on
RECURSIVE BestFrontBackFrom(_, _, _, _)
BestFrontBackFrom(rows, k, front, back) ==
    IF k > Len(rows)
    THEN [exc |-> NoExc, front |-> front, back |-> back]
    ELSE LET r == rows[k]
         IN  IF r.sStart > MaxEdgeOffset \/ r.pStart > MaxEdgeOffset
             THEN BestFrontBackFrom(rows, k + 1, front, back)
             ELSE IF EndsWith(r.sid, "_front")
             THEN BestFrontBackFrom(rows, k + 1,
                                    KeepBest(front, StripSuffix(r.sid), r), back)
             ELSE IF EndsWith(r.sid, "_back")
             THEN BestFrontBackFrom(rows, k + 1, front,
                                    KeepBest(back, StripSuffix(r.sid), r))
             ELSE [exc |-> ClassifierException("dom"),
                   front |-> front, back |-> back]

GetBestFrontBackRecord(rows) == BestFrontBackFrom(rows, 1, EmptyDict, EmptyDict)

\* best_of_front[read.name] of a defaultdict(lambda: None)
Lookup(bestOf, name) ==
    IF name \in DOMAIN bestOf THEN Some(bestOf[name]) ELSE Nothing

\* Mutant: a hit qualifies by its score alone
IsSuspicious_ScoreOnly(r, opts) == r.score > opts.min_score

\* Classifier._getChimeraRecord: sid -> the rows in the middle of the read
IsSuspicious(r, opts) ==
    /\ r.sStart > opts.min_dist_from_end
    /\ r.sEnd < r.sLen - opts.min_dist_from_end
    /\ r.score > opts.min_score

GetChimeraRecord(rows, opts) ==
    LET hit(r) == IsSuspicious(r, opts)
        good   == SelectSeq(rows, hit)
    IN  [sid \in {good[i].sid : i \in 1..Len(good)} |->
            SelectSeq(good, LAMBDA r : r.sid = sid)]

(***************************************************************************)
(* Classifier._findPolyA (Classifier.py 460-482).  Indices are Python's:   *)
(* seq[i] is the TLA+ element i + 1.                                       *)
(***************************************************************************)
MinANum == 8
PolyAOffset == 50

\* s.rfind(sub, start): a negative start counts from the end
RFind(s, sub, start) ==
    LET st0  == IF start < 0 THEN start + Len(s) ELSE start
        st   == IF st0 < 0 THEN 0 ELSE st0
        hits == {i \in st..(Len(s) - Len(sub)) :
                    SubSeq(s, i + 1, i + Len(sub)) = sub}
    IN  IF hits = {} THEN -1 ELSE Max(hits)

\* the while loop of lines 475-479: the value of i when it ends
RECURSIVE Backtrace(_, _, _)
Backtrace(seq, i, nonA) ==
    IF i >= 0
    THEN LET n == nonA + (IF seq[i + 1] # "A" THEN 1 ELSE 0)
         IN  IF n > 2 THEN i ELSE Backtrace(seq, i - 1, n)
    ELSE i

\* Mutant: a run found at index 0 is accepted (i >= 0)
FindPolyA_FromZero(seq, min_a_num, three_start) ==
    LET polyA    == Rep("A", min_a_num)
        startEnd == IF IsSome(three_start)
                    THEN TheValue(three_start) - PolyAOffset
                    ELSE Len(seq) - PolyAOffset
        i        == RFind(seq, polyA, startEnd)
    IN  IF i >= 0 THEN Backtrace(seq, i, 0) + 1 ELSE -1

\* three_start is optional
FindPolyA(seq, min_a_num, three_start) ==
    LET polyA    == Rep("A", min_a_num)
        startEnd == IF IsSome(three_start)
                    THEN TheValue(three_start) - PolyAOffset
                    ELSE Len(seq) - PolyAOffset
        i        == RFind(seq, polyA, startEnd)
    IN  IF i > 0 THEN Backtrace(seq, i, 0) + 1 ELSE -1

(***************************************************************************)
(* Specification SpecPolyA: _findPolyA called on its own, on every         *)
(* sequence of A and C of at most MaxBodyLen bases, alone or after 40      *)
(* bases that are not A, without a 3' start or with one near the end.      *)
(***************************************************************************)
MaxBodyLen == 13
PolyAPad == 40

PolyASeqs ==
    {Rep("C", pad) \o body :
        pad \in {0, PolyAPad}, body \in SeqsUpTo({"A", "C"}, MaxBodyLen)}

ThreeStarts(seq) ==
    {Nothing} \cup {Some(t) : t \in {Len(seq), Len(seq) - 2} \cap Nat}

Returned(v) == [kind |-> "value", value |-> v]

InitPolyA ==
    /\ \E seq \in PolyASeqs : \E t \in ThreeStarts(seq) :
           call = [fn |-> "_findPolyA", seq |-> seq, three_start |-> t]
    /\ ret = [kind |-> "unset"]
    /\ IdleName
    /\ IdlePrimers
    /\ IdleRun

CallFindPolyA ==
    /\ call.fn = "_findPolyA"
    /\ ret.kind = "unset"
    /\ ret' = Returned(FindPolyA(call.seq, MinANum, call.three_start))
    /\ UNCHANGED <<call, nameVars, primerVars, runVars>>

NextPolyA == CallFindPolyA

SpecPolyA == InitPolyA /\ [][NextPolyA]_vars

(***************************************************************************)
(* Classifier._pickBestPrimerCombo (Classifier.py 484-531).  dFront and    *)
(* dBack are optional dicts pid -> row.                                    *)
(***************************************************************************)
InitialBestScore == -1000

\* Mutant: the hit is kept only on a score above min_score
GetDomRecord_Strict(d, k, min_score) ==
    IF IsSome(d) /\ k \in DOMAIN TheValue(d) /\ TheValue(d)[k].score > min_score
    THEN Some(TheValue(d)[k])
    ELSE Nothing

\* getDomRecord
GetDomRecord(d, k, min_score) ==
    IF IsSome(d) /\ k \in DOMAIN TheValue(d) /\ TheValue(d)[k].score >= min_score
    THEN Some(TheValue(d)[k])
    ELSE Nothing

ScoreOf(d, k) ==
    IF IsSome(d) /\ k \in DOMAIN TheValue(d) THEN TheValue(d)[k].score ELSE 0

\* Mutant: the tally of both strands is the tally of '+'
Tally_OneStrand(dFront, dBack, ind, strand) ==
    ScoreOf(dFront, <<"F", ind>>) + ScoreOf(dBack, <<"R", ind>>)

\* tally[(ind, strand)], lines 502-514
Tally(dFront, dBack, ind, strand) ==
    IF strand = "+"
    THEN ScoreOf(dFront, <<"F", ind>>) + ScoreOf(dBack, <<"R", ind>>)
    ELSE ScoreOf(dFront, <<"R", ind>>) + ScoreOf(dBack, <<"F", ind>>)

\* Lines 516-520.  The loop keeps the last key, in the dict's iteration
\* order, whose score is the maximum (bestScore <= s); that order is not
\* specified, so any key of maximal score can be the one kept.
BestKeys(dFront, dBack, primer_indices) ==
    LET keys == {<<Some(ind), st>> : ind \in primer_indices, st \in {"+", "-"}}
        t(k) == Tally(dFront, dBack, TheValue(k[1]), k[2])
        best == {k \in keys : t(k) >= InitialBestScore
                              /\ \A k2 \in keys : t(k2) <= t(k)}
    IN  IF best = {} THEN {<<Nothing, "None">>} ELSE best

\* Lines 522-531 for the key kept: (bestInd, bestStrand, fw, rc)
ComboResult(dFront, dBack, key, min_score) ==
    LET k1 == <<"F", IF IsSome(key[1]) THEN TheValue(key[1]) ELSE -1>>
        k2 == <<"R", IF IsSome(key[1]) THEN TheValue(key[1]) ELSE -1>>
    IN  IF key[2] = "+"
        THEN [primerIndex |-> key[1], strand |-> key[2],
              fw |-> GetDomRecord(dFront, k1, min_score),
              rc |-> GetDomRecord(dBack, k2, min_score)]
        ELSE [primerIndex |-> key[1], strand |-> key[2],
              fw |-> GetDomRecord(dBack, k1, min_score),
              rc |-> GetDomRecord(dFront, k2, min_score)]

\* the results _pickBestPrimerCombo can return
PickBestPrimerCombo(dFront, dBack, primer_indices, min_score) ==
    {ComboResult(dFront, dBack, key, min_score) :
        key \in BestKeys(dFront, dBack, primer_indices)}

(***************************************************************************)
(* ReadAnnotation (pbtools.pbtranscript.io.ReadAnnotation), by its         *)
(* interface: the fields, the full-length predicate, the FASTA header and  *)
(* the report row.  The header and the row are the record itself.          *)
(***************************************************************************)
ReadAnnotation(ID, strand, fiveend, polyAend, threeend, primer, chimera, ignore_polyA) ==
    [ID |-> ID, strand |-> strand, fiveend |-> fiveend, polyAend |-> polyAend,
     threeend |-> threeend, primer |-> primer, chimera |-> chimera,
     ignore_polyA |-> ignore_polyA]

\* ReadAnnotation(ID=newName)
ReadAnnotationOfID(ID) ==
    ReadAnnotation(ID, "None", Nothing, Nothing, Nothing, Nothing, Nothing,
                   FALSE)

FiveSeen(a) == IsSome(a.fiveend)
ThreeSeen(a) == IsSome(a.threeend)
PolyASeen(a) == IsSome(a.polyAend) /\ TheValue(a.polyAend) >= 0

\* isFullLength: 5' and 3' seen, and poly-A seen unless ignore_polyA
IsFullLength(a) ==
    FiveSeen(a) /\ ThreeSeen(a) /\ (a.ignore_polyA \/ PolyASeen(a))

\* ReadAnnotation.fromString(header, ignore_polyA)
FromString(header, ignore_polyA) == [header EXCEPT !.ignore_polyA = ignore_polyA]

(***************************************************************************)
(* Classifier._trimBarCode, the body of the loop for one read (lines       *)
(* 570-653) once the primer combo is picked.                               *)
(***************************************************************************)
\* "{m}/{z}/{s1}_{e1}{isccs}", the numbers left unformatted
NewName(pbread, s1, e1) ==
    <<pbread.movie, "/", pbread.zmw, "/", s1, "_", e1,
      IF pbread.isCCS THEN "_CCS" ELSE "">>

\* Mutant: ignore_polyA is not handed to the annotation (its default is False)
TrimAnnotation_DefaultFlag(ID, strand, five_end, polyAPos, three_start, primerIndex, ignore_polyA) ==
    ReadAnnotation(ID, strand, five_end, Some(polyAPos), three_start,
                   primerIndex, Nothing, FALSE)

\* Lines 635-637
TrimAnnotation(ID, strand, five_end, polyAPos, three_start, primerIndex, ignore_polyA) ==
    ReadAnnotation(ID, strand, five_end, Some(polyAPos), three_start,
                   primerIndex, Nothing, ignore_polyA)

\* Lines 581-600: no primer seen
TrimNoPrimer(read, pbread, min_seq_len, change_read_id) ==
    LET newName    == IF change_read_id
                      THEN NewName(pbread, pbread.start, pbread.end)
                      ELSE pbread.name
        annotation == ReadAnnotationOfID(newName)
    IN  [annotation |-> annotation,
         seq        |-> read.sequence,
         report     |-> TRUE,
         route      |-> IF Len(read.sequence) >= min_seq_len
                        THEN "nfl" ELSE "short",
         fiveSeen   |-> FALSE, threeSeen |-> FALSE, polyASeen |-> FALSE]

\* Mutant: the start of the 3' primer is the clip point before the poly-A index
TrimPrimer_PrimerFirst(read, pbread, combo, min_seq_len, change_read_id, ignore_polyA) ==
    LET strand      == combo.strand
        seq0        == IF strand = "+" THEN read.sequence
                       ELSE Revcmp(read.sequence)
        five_end    == IF IsSome(combo.fw)
                       THEN Some(TheValue(combo.fw).sEnd) ELSE Nothing
        three_start == IF IsSome(combo.rc)
                       THEN Some(Len(seq0) - TheValue(combo.rc).sEnd)
                       ELSE Nothing
        s           == pbread.start
        e           == pbread.end
        polyAPos    == FindPolyA(seq0, MinANum, three_start)
        seq1        == IF IsSome(three_start)
                       THEN Slice(seq0, 0, TheValue(three_start))
                       ELSE IF polyAPos >= 0 THEN Slice(seq0, 0, polyAPos)
                       ELSE seq0
        e1          == IF IsSome(three_start)
                       THEN (IF strand = "+" THEN s + TheValue(three_start)
                             ELSE e - TheValue(three_start))
                       ELSE IF polyAPos >= 0
                       THEN (IF strand = "+" THEN s + polyAPos
                             ELSE e - polyAPos)
                       ELSE (IF strand = "+" THEN e ELSE s)
        seq2        == IF IsSome(five_end)
                       THEN Slice(seq1, TheValue(five_end), Len(seq1))
                       ELSE seq1
        s1          == IF IsSome(five_end)
                       THEN (IF strand = "+" THEN s + TheValue(five_end)
                             ELSE e - TheValue(five_end))
                       ELSE (IF strand = "+" THEN s ELSE e)
        newName     == IF change_read_id THEN NewName(pbread, s1, e1)
                       ELSE pbread.name
        annotation  == TrimAnnotation(newName, strand, five_end, polyAPos,
                                      three_start, combo.primerIndex,
                                      ignore_polyA)
    IN  [annotation |-> annotation,
         seq        |-> seq2,
         report     |-> ~IsFullLength(annotation),
         route      |-> IF Len(seq2) >= min_seq_len
                        THEN (IF IsFullLength(annotation) THEN "fl" ELSE "nfl")
                        ELSE "short",
         fiveSeen   |-> IsSome(combo.fw), threeSeen |-> IsSome(combo.rc),
         polyASeen  |-> polyAPos >= 0]

\* Lines 601-653: a primer was seen
TrimPrimer(read, pbread, combo, min_seq_len, change_read_id, ignore_polyA) ==
    LET strand      == combo.strand
        seq0        == IF strand = "+" THEN read.sequence
                       ELSE Revcmp(read.sequence)
        five_end    == IF IsSome(combo.fw)
                       THEN Some(TheValue(combo.fw).sEnd) ELSE Nothing
        three_start == IF IsSome(combo.rc)
                       THEN Some(Len(seq0) - TheValue(combo.rc).sEnd)
                       ELSE Nothing
        s           == pbread.start
        e           == pbread.end
        polyAPos    == FindPolyA(seq0, MinANum, three_start)
        seq1        == IF polyAPos >= 0 THEN Slice(seq0, 0, polyAPos)
                       ELSE IF IsSome(three_start)
                       THEN Slice(seq0, 0, TheValue(three_start))
                       ELSE seq0
        e1          == IF polyAPos >= 0
                       THEN (IF strand = "+" THEN s + polyAPos
                             ELSE e - polyAPos)
                       ELSE IF IsSome(three_start)
                       THEN (IF strand = "+" THEN s + TheValue(three_start)
                             ELSE e - TheValue(three_start))
                       ELSE (IF strand = "+" THEN e ELSE s)
        seq2        == IF IsSome(five_end)
                       THEN Slice(seq1, TheValue(five_end), Len(seq1))
                       ELSE seq1
        s1          == IF IsSome(five_end)
                       THEN (IF strand = "+" THEN s + TheValue(five_end)
                             ELSE e - TheValue(five_end))
                       ELSE (IF strand = "+" THEN s ELSE e)
        newName     == IF change_read_id THEN NewName(pbread, s1, e1)
                       ELSE pbread.name
        annotation  == TrimAnnotation(newName, strand, five_end, polyAPos,
                                      three_start, combo.primerIndex,
                                      ignore_polyA)
    IN  [annotation |-> annotation,
         seq        |-> seq2,
         report     |-> ~IsFullLength(annotation),
         route      |-> IF Len(seq2) >= min_seq_len
                        THEN (IF IsFullLength(annotation) THEN "fl" ELSE "nfl")
                        ELSE "short",
         fiveSeen   |-> IsSome(combo.fw), threeSeen |-> IsSome(combo.rc),
         polyASeen  |-> polyAPos >= 0]

TrimOne(read, pbread, combo, min_seq_len, change_read_id, ignore_polyA) ==
    IF ~IsSome(combo.fw) /\ ~IsSome(combo.rc)
    THEN TrimNoPrimer(read, pbread, min_seq_len, change_read_id)
    ELSE TrimPrimer(read, pbread, combo, min_seq_len, change_read_id,
                    ignore_polyA)

(***************************************************************************)
(* Chunking (Classifier.py 295-331 and 697-699, 766-772).                  *)
(***************************************************************************)
CeilDiv(a, b) == (a + b - 1) \div b
MinOf(a, b) == IF a < b THEN a ELSE b
MaxOf(a, b) == IF a > b THEN a ELSE b

\* Mutant: the quotient is rounded down
ReadsPerChunk_Floor(n, cpus) == n \div MaxOf(MinOf(cpus, n), 1)

\* reads_per_chunk of lines 697-698 and 766-771
ReadsPerChunk(n, cpus) == CeilDiv(n, MaxOf(MinOf(cpus, n), 1))

\* Mutant: num_chunks is not computed again from reads_per_chunk
NumChunks_NoRecompute(n, cpus) == MaxOf(MinOf(cpus, n), 1)

\* num_chunks of lines 699 and 772
NumChunks(n, cpus) == CeilDiv(n, ReadsPerChunk(n, cpus))

\* what _chunkReads writes for one read
ChunkRecords(read, extract_front_back_only, window_size) ==
    IF extract_front_back_only
    THEN << [name |-> Append(read.name, "_front"),
             sequence |-> Slice(read.sequence, 0, window_size),
             key |-> read.key],
            [name |-> Append(read.name, "_back"),
             sequence |-> Slice(Revcmp(read.sequence), 0, window_size),
             key |-> read.key] >>
    ELSE << read >>

RECURSIVE Flatten(_)
Flatten(ss) == IF ss = <<>> THEN <<>> ELSE ss[1] \o Flatten(Tail(ss))

\* _chunkReads: chunk index -> the records written to that chunk file; read
\* number i (from 0) goes to chunk i div reads_per_chunk.
ChunkReads(reads, reads_per_chunk, extract_front_back_only, window_size) ==
    LET n      == Len(reads)
        chunks == {i \div reads_per_chunk : i \in 0..(n - 1)}
    IN  [c \in chunks |->
            Flatten([j \in 1..MinOf(reads_per_chunk, n - c * reads_per_chunk) |->
                        ChunkRecords(reads[c * reads_per_chunk + j],
                                     extract_front_back_only, window_size)])]

(***************************************************************************)
(* The run (Classifier.run, Classifier.py 819-861) over a file system.     *)
(* A file is an optional value: Nothing when it does not exist, Some of    *)
(* its records otherwise.                                                  *)
(***************************************************************************)
Phases == {"trim", "chim"}

\* ChimeraDetectionOptions(min_seq_len, min_score, min_dist_from_end,
\* max_adjacent_hit_dist, primer_search_window), with small values
Opts == [min_seq_len |-> 5, min_score |-> 10, min_dist_from_end |-> 1,
         max_adjacent_hit_dist |-> 50, primer_search_window |-> 4]

\* the default window_size of _chunkReads
DefaultWindowSize == 100

\* Primer files
PrimerF0 == [name |-> <<"F", 0>>, sequence |-> <<"G", "G">>]
PrimerR0 == [name |-> <<"R", 0>>, sequence |-> <<"A", "A">>]
PrimerLong == [name |-> <<"F", 0>>, sequence |-> <<"G", "G", "G", "G", "G">>]
ValidPrimers == <<PrimerF0, PrimerR0>>
DisorderedPrimers == <<PrimerR0, PrimerF0>>
OverlongPrimers == <<PrimerLong, PrimerR0>>

\* Reads.  key names the read for the answers of phmmer below.
ReadFLA ==
    [name |-> <<"m", "/", "1", "/", "ccs">>,
     sequence |-> <<"G", "G">> \o Rep("C", 10) \o Rep("A", 8) \o <<"T", "T">>,
     key |-> "flA"]
ReadFLChim ==
    [name |-> <<"m", "/", "2", "/", "ccs">>,
     sequence |-> <<"G", "G">> \o Rep("C", 10) \o Rep("A", 8) \o <<"T", "T">>,
     key |-> "flChim"]
ReadFLNoA ==
    [name |-> <<"m", "/", "3", "/", "ccs">>,
     sequence |-> <<"G", "G">> \o Rep("C", 10) \o <<"T", "T">>,
     key |-> "flNoA"]
ReadNFL ==
    [name |-> <<"m", "/", "4", "/", "1", "_", "7">>,
     sequence |-> Rep("C", 6),
     key |-> "nfl"]
ReadShort ==
    [name |-> <<"m", "/", "5">>,
     sequence |-> Rep("C", 3),
     key |-> "short"]
ReadBad ==
    [name |-> <<"m">>,
     sequence |-> Rep("C", 6),
     key |-> "bad"]
ReadMinus ==
    [name |-> <<"m", "/", "6", "/", "ccs">>,
     sequence |-> Revcmp(<<"G", "G">> \o Rep("C", 3) \o <<"T", "T">>),
     key |-> "minus"]
ReadFive ==
    [name |-> <<"m", "/", "7", "/", "ccs">>,
     sequence |-> <<"G", "G">> \o Rep("C", 6),
     key |-> "five"]

ReadPool == <<ReadFLA, ReadFLChim, ReadFLNoA, ReadNFL, ReadShort, ReadBad,
              ReadMinus, ReadFive>>

\* The reads files: the reads of the pool at increasing positions
ReadFiles ==
    {[j \in 1..Len(ix) |-> ReadPool[ix[j]]] :
        ix \in {s \in SeqsUpTo(1..Len(ReadPool), MaxReads) :
                   \A a, b \in 1..Len(s) : a < b => s[a] < s[b]}}

\* A row of a dom file
DOMRecord(sid, pid, score, sStart, sEnd, sLen, pStart) ==
    [sid |-> sid, pid |-> pid, score |-> score, sStart |-> sStart,
     sEnd |-> sEnd, sLen |-> sLen, pStart |-> pStart]

\* phmmer as an oracle: the rows it reports for one record of a chunk file.
\* The front of a read is searched as name_front, the reverse complement of
\* its end as name_back, a trimmed read under its id.
PhmmerRows(rec, ph) ==
    LET n   == Len(rec.sequence)
        F0  == <<"F", 0>>
        R0  == <<"R", 0>>
        row(pid, score, sStart, sEnd) ==
            DOMRecord(IF ph = "trim" THEN rec.name ELSE rec.name.ID,
                      pid, score, sStart, sEnd, n, 0)
        front == ph = "trim" /\ EndsWith(rec.name, "_front")
        back  == ph = "trim" /\ EndsWith(rec.name, "_back")
    IN  CASE rec.key \in {"flA", "flNoA"} ->
                 IF front THEN <<row(F0, 15, 0, 1), row(F0, 20, 0, 2)>>
                 ELSE IF back THEN <<row(R0, 20, 0, 2)>>
                 ELSE <<row(F0, 20, 0, 2)>>
          [] rec.key = "flChim" ->
                 IF front THEN <<row(F0, 20, 0, 2)>>
                 ELSE IF back THEN <<row(R0, 20, 0, 2)>>
                 ELSE <<row(R0, 15, 2, 5)>>
          [] rec.key = "minus" ->
                 IF front THEN <<row(R0, 20, 0, 2)>>
                 ELSE IF back THEN <<row(F0, 20, 0, 2)>>
                 ELSE <<>>
          [] rec.key = "five" ->
                 IF front THEN <<row(F0, 20, 0, 2)>>
                 ELSE IF back THEN <<row(R0, 5, 0, 2)>>
                 ELSE <<>>
          [] OTHER -> <<>>

\* the dom file phmmer writes for a chunk file
PhmmerDom(recs, ph) == Flatten([j \in 1..Len(recs) |-> PhmmerRows(recs[j], ph)])

\* Dom files left in the output directory by something else than a run
ForeignRow(sStart) ==
    DOMRecord(<<"m", "/", "1", "/", "ccs">>, <<"F", 0>>, 20, sStart, sStart + 2,
              100, 0)
ForeignDoms == {<<ForeignRow(0)>>, <<ForeignRow(60)>>}

\* ClassifySummary(): all the counters at 0
ClassifySummary ==
    [num_reads |-> 0, num_5_seen |-> 0, num_3_seen |-> 0,
     num_polyA_seen |-> 0, num_filtered_short_reads |-> 0, num_nfl |-> 0,
     num_fl |-> 0, num_flc |-> 0, num_flnc |-> 0, num_flnc_bases |-> 0]

NoFiles == [c \in {} |-> <<>>]

\* The locals of run, runPrimerTrimmer and runChimeraDetector and the
\* attributes they set.  failed and launched keep, for the run, the workers
\* that exited with a non-zero code and the number of workers started.
InitLoc ==
    [need_cleanup   |-> [ph \in Phases |-> TRUE],
     primer_indices |-> {},
     chunked_fns    |-> [ph \in Phases |-> 0],
     joined         |-> 0,
     best_of_front  |-> EmptyDict,
     best_of_back   |-> EmptyDict,
     suspicous_hits |-> EmptyDict,
     i              |-> 0,
     failed         |-> {},
     launched       |-> [ph \in Phases |-> 0]]

\* The output directory before the first run
InitFs(reads, primers, matrix, phmmer, dom) ==
    [reads |-> reads, primers |-> primers, matrix |-> matrix,
     phmmer |-> phmmer, out_dir |-> IsSome(dom),
     primer_front_back |-> Nothing, primer_chimera |-> Nothing,
     dom |-> [ph \in Phases |-> IF ph = "trim" THEN dom ELSE Nothing],
     chunk_reads |-> [ph \in Phases |-> NoFiles],
     chunk_dom |-> [ph \in Phases |-> NoFiles],
     fl |-> Nothing, nfl |-> Nothing, report_nfl |-> Nothing,
     flnc |-> Nothing, flc |-> Nothing, report_fl |-> Nothing,
     all_reads |-> Nothing, primer_report |-> Nothing,
     summary_file |-> Nothing]

\* The configurations and inputs runs start from: every reads file with
\* valid primers, and each broken input with one reads file.
Scenarios ==
    {InitFs(Some(r), Some(ValidPrimers), TRUE, TRUE, Nothing) :
        r \in ReadFiles}
    \cup {InitFs(Nothing, Some(ValidPrimers), TRUE, TRUE, Nothing),
          InitFs(Some(<<ReadFLA>>), Nothing, TRUE, TRUE, Nothing),
          InitFs(Some(<<ReadFLA>>), Some(ValidPrimers), FALSE, TRUE, Nothing),
          InitFs(Some(<<ReadFLA>>), Some(ValidPrimers), TRUE, FALSE, Nothing),
          InitFs(Some(<<ReadFLA>>), Some(DisorderedPrimers), TRUE, TRUE,
                 Nothing),
          InitFs(Some(<<ReadFLA>>), Some(OverlongPrimers), TRUE, TRUE,
                 Nothing)}
    \cup {InitFs(Some(<<ReadFLA>>), Some(ValidPrimers), TRUE, TRUE, Some(d)) :
             d \in ForeignDoms}

Init ==
    /\ cfg \in [cpus : 1..MaxCpus, ignore_polyA : BOOLEAN,
                change_read_id : BOOLEAN, opts : {Opts}]
    /\ fs \in Scenarios
    /\ pc = "validateInputs"
    /\ loc = InitLoc
    /\ summary = ClassifySummary
    /\ workers = EmptyDict
    /\ exc = NoExc
    /\ log = <<>>
    /\ IdleName
    /\ IdlePrimers
    /\ IdleCall

\* raise e: the run ends
Raise(e) == pc' = "error" /\ exc' = e

\* Files
Write(f, x) == Some(Append(TheValue(f), x))
\* Mutant: the file is written anew (">" for ">>")
Content_Truncated(f) == <<>>

\* what a file holds before ">>" appends to it
Content(f) == IF IsSome(f) THEN TheValue(f) ELSE <<>>

\* Classifier._validateInputs (162-174)
ValidateInputs ==
    /\ pc = "validateInputs"
    /\ IF ~IsSome(fs.reads) THEN Raise(ClassifierException("reads"))
       ELSE IF ~IsSome(fs.primers) THEN Raise(ClassifierException("primers"))
       ELSE IF ~fs.matrix THEN Raise(ClassifierException("matrix"))
       ELSE pc' = "validateOutputs" /\ exc' = exc
    /\ UNCHANGED <<cfg, fs, loc, summary, workers, log, nameVars, primerVars, callVars>>

\* Classifier._validateOutputs (655-666)
ValidateOutputs ==
    /\ pc = "validateOutputs"
    /\ fs' = [fs EXCEPT !.out_dir = TRUE]
    /\ pc' = "checkPhmmer"
    /\ UNCHANGED <<cfg, loc, summary, workers, exc, log, nameVars, primerVars, callVars>>

\* Classifier._checkPhmmer (176-182)
CheckPhmmer ==
    /\ pc = "checkPhmmer"
    /\ IF fs.phmmer THEN pc' = "trim_processPrimers" /\ exc' = exc
       ELSE Raise(ClassifierException("phmmer"))
    /\ UNCHANGED <<cfg, fs, loc, summary, workers, log, nameVars, primerVars, callVars>>

\* runPrimerTrimmer, lines 685-689
TrimProcessPrimers ==
    /\ pc = "trim_processPrimers"
    /\ LET r == ProcessPrimers(TheValue(fs.primers),
                               cfg.opts.primer_search_window, FALSE)
       IN  IF r.exc # NoExc
           THEN Raise(r.exc) /\ UNCHANGED <<fs, loc>>
           ELSE /\ fs' = [fs EXCEPT !.primer_front_back = Some(r.primers)]
                /\ loc' = [loc EXCEPT !.primer_indices = r.indices]
                /\ pc' = "trim_checkDom"
                /\ exc' = exc
    /\ UNCHANGED <<cfg, summary, workers, log, nameVars, primerVars, callVars>>

\* The combined dom file of a phase
\* lines 691-694 and 754-757: the phase resumes on a dom file that exists
CheckDom(ph) ==
    /\ pc = (IF ph = "trim" THEN "trim_checkDom" ELSE "chim_checkDom")
    /\ IF IsSome(fs.dom[ph])
       THEN /\ loc' = [loc EXCEPT !.need_cleanup[ph] = FALSE]
            /\ pc' = (IF ph = "trim" THEN "trim_parse" ELSE "chim_parse")
       ELSE /\ loc' = loc
            /\ pc' = (IF ph = "trim" THEN "trim_chunk"
                      ELSE "chim_processPrimers")
    /\ UNCHANGED <<cfg, fs, summary, workers, exc, log, nameVars, primerVars, callVars>>

\* Writing the chunk files: the files written replace those of the same name
WriteChunks(old, new) ==
    [c \in DOMAIN old \cup DOMAIN new |->
        IF c \in DOMAIN new THEN new[c] ELSE old[c]]

\* runPrimerTrimmer, lines 697-719; numReads (284-293) fails on no read
TrimChunk ==
    /\ pc = "trim_chunk"
    /\ LET reads == TheValue(fs.reads)
           n     == Len(reads)
       IN  IF n = 0
           THEN Raise(ClassifierException("numReads")) /\ UNCHANGED <<fs, loc>>
           ELSE /\ fs' = [fs EXCEPT !.chunk_reads["trim"] =
                             WriteChunks(@, ChunkReads(reads,
                                 ReadsPerChunk(n, cfg.cpus), TRUE,
                                 cfg.opts.primer_search_window))]
                /\ loc' = [loc EXCEPT !.chunked_fns["trim"] =
                                           NumChunks(n, cfg.cpus)]
                /\ pc' = "trim_launch"
                /\ exc' = exc
    /\ UNCHANGED <<cfg, summary, workers, log, nameVars, primerVars, callVars>>

\* The steps of a phase
LaunchPc(ph) == IF ph = "trim" THEN "trim_launch" ELSE "chim_launch"
JoinPc(ph) == IF ph = "trim" THEN "trim_join" ELSE "chim_join"
ParsePc(ph) == IF ph = "trim" THEN "trim_parse" ELSE "chim_parse"
CleanupPc(ph) == IF ph = "trim" THEN "trim_cleanup" ELSE "chim_cleanup"

\* _startPhmmers, lines 341-346: one process per chunk, all started
Launch(ph) ==
    /\ pc = LaunchPc(ph)
    /\ workers' = [c \in 0..(loc.chunked_fns[ph] - 1) |-> "running"]
    /\ loc' = [loc EXCEPT !.joined = 0,
                          !.launched[ph] = loc.chunked_fns[ph]]
    /\ pc' = JoinPc(ph)
    /\ UNCHANGED <<cfg, fs, summary, exc, log, nameVars, primerVars, callVars>>

\* The phase whose workers run
WorkersPhase == IF loc.launched["chim"] > 0 THEN "chim" ELSE "trim"

\* _phmmer (357-367) in the process of chunk c.  phmmer exits with 0 and
\* its dom file written, or with another code and its dom file written in
\* part (here: empty) or not at all; the exception then raised stays in the
\* child process.
WorkerFinish(c, code, wrote) ==
    /\ c \in DOMAIN workers
    /\ workers[c] = "running"
    /\ code = 0 => wrote
    /\ LET ph   == WorkersPhase
           rows == IF c \in DOMAIN fs.chunk_reads[ph] /\ code = 0
                   THEN PhmmerDom(fs.chunk_reads[ph][c], ph)
                   ELSE <<>>
       IN  /\ fs' = IF wrote
                    THEN [fs EXCEPT !.chunk_dom[ph] =
                                        WriteChunks(@, [x \in {c} |-> rows])]
                    ELSE fs
           /\ loc' = IF code = 0 THEN loc
                     ELSE [loc EXCEPT !.failed = @ \cup {<<ph, c>>}]
    /\ workers' = [workers EXCEPT ![c] = IF code = 0 THEN "exit0" ELSE "exit1"]
    /\ UNCHANGED <<cfg, pc, summary, exc, log, nameVars, primerVars, callVars>>

\* Mutant: the next job is not joined before its dom file is concatenated
Join_NoWait(ph) ==
    /\ pc = JoinPc(ph)
    /\ loc.joined < loc.chunked_fns[ph]
    /\ LET c == loc.joined
       IN  IF c \in DOMAIN fs.chunk_dom[ph]
           THEN /\ fs' = [fs EXCEPT !.dom[ph] =
                             Some(Content(@) \o fs.chunk_dom[ph][c])]
                /\ pc' = IF c + 1 = loc.chunked_fns[ph] THEN ParsePc(ph)
                         ELSE pc
                /\ exc' = exc
           ELSE /\ fs' = [fs EXCEPT !.dom[ph] = Some(Content(@))]
                /\ Raise(ClassifierException("cat"))
    /\ loc' = [loc EXCEPT !.joined = @ + 1]
    /\ UNCHANGED <<cfg, summary, workers, log, nameVars, primerVars, callVars>>

\* _startPhmmers, lines 348-355, for the next job: join it, then
\* "cat domFN >> outDomFN".  The shell creates outDomFN before cat runs;
\* cat fails if domFN does not exist.  The exit code of p is not looked at.
Join(ph) ==
    /\ pc = JoinPc(ph)
    /\ loc.joined < loc.chunked_fns[ph]
    /\ workers[loc.joined] # "running"
    /\ LET c == loc.joined
       IN  IF c \in DOMAIN fs.chunk_dom[ph]
           THEN /\ fs' = [fs EXCEPT !.dom[ph] =
                             Some(Content(@) \o fs.chunk_dom[ph][c])]
                /\ pc' = IF c + 1 = loc.chunked_fns[ph] THEN ParsePc(ph)
                         ELSE pc
                /\ exc' = exc
           ELSE /\ fs' = [fs EXCEPT !.dom[ph] = Some(Content(@))]
                /\ Raise(ClassifierException("cat"))
    /\ loc' = [loc EXCEPT !.joined = @ + 1]
    /\ UNCHANGED <<cfg, summary, workers, log, nameVars, primerVars, callVars>>

\* runPrimerTrimmer, lines 729-730
TrimParse ==
    /\ pc = "trim_parse"
    /\ LET r == GetBestFrontBackRecord(TheValue(fs.dom["trim"]))
       IN  IF r.exc # NoExc
           THEN Raise(r.exc) /\ loc' = loc
           ELSE /\ loc' = [loc EXCEPT !.best_of_front = r.front,
                                      !.best_of_back = r.back]
                /\ pc' = "trim_open"
                /\ exc' = exc
    /\ UNCHANGED <<cfg, fs, summary, workers, log, nameVars, primerVars, callVars>>

\* _trimBarCode, lines 565-568: the three outputs are opened for writing
TrimOpen ==
    /\ pc = "trim_open"
    /\ fs' = [fs EXCEPT !.nfl = Some(<<>>), !.fl = Some(<<>>),
                        !.report_nfl = Some(<<>>)]
    /\ loc' = [loc EXCEPT !.i = 0]
    /\ pc' = "trim_reads"
    /\ UNCHANGED <<cfg, summary, workers, exc, log, nameVars, primerVars, callVars>>

\* Mutant: a counter is incremented whatever the branch taken
Bump_Always(b) == 1

Bump(b) == IF b THEN 1 ELSE 0

\* _trimBarCode, lines 569-653: one turn of the loop
TrimRead ==
    /\ pc = "trim_reads"
    /\ loc.i < Len(TheValue(fs.reads))
    /\ LET read   == TheValue(fs.reads)[loc.i + 1]
           pbread == PBReadInit(read)
       IN  IF pbread.kind = "error"
           THEN /\ summary' = [summary EXCEPT !.num_reads = @ + 1]
                /\ Raise([type |-> pbread.error, msg |-> "read name"])
                /\ UNCHANGED <<fs, loc, log>>
           ELSE \E combo \in PickBestPrimerCombo(
                                 Lookup(loc.best_of_front, read.name),
                                 Lookup(loc.best_of_back, read.name),
                                 loc.primer_indices, cfg.opts.min_score) :
                LET t   == TrimOne(read, pbread, combo, cfg.opts.min_seq_len,
                                   cfg.change_read_id, cfg.ignore_polyA)
                    rec == [name |-> t.annotation, sequence |-> t.seq,
                            key |-> read.key]
                IN  /\ fs' = [fs EXCEPT
                             !.report_nfl = IF t.report
                                            THEN Write(@, t.annotation) ELSE @,
                             !.nfl = IF t.route = "nfl" THEN Write(@, rec)
                                     ELSE @,
                             !.fl = IF t.route = "fl" THEN Write(@, rec)
                                    ELSE @]
                    /\ summary' = [summary EXCEPT
                             !.num_reads = @ + 1,
                             !.num_5_seen = @ + Bump(t.fiveSeen),
                             !.num_3_seen = @ + Bump(t.threeSeen),
                             !.num_polyA_seen = @ + Bump(t.polyASeen),
                             !.num_nfl = @ + Bump(t.route = "nfl"),
                             !.num_fl = @ + Bump(t.route = "fl"),
                             !.num_filtered_short_reads =
                                 @ + Bump(t.route = "short")]
                    /\ log' = Append(log,
                             [name |-> read.name, ID |-> t.annotation.ID,
                              fw |-> t.fiveSeen, rc |-> t.threeSeen,
                              polyA |-> t.polyASeen, report |-> t.report,
                              len |-> Len(t.seq),
                              route |-> t.route])
                    /\ loc' = [loc EXCEPT !.i = @ + 1]
                    /\ pc' = pc
                    /\ exc' = exc
    /\ UNCHANGED <<cfg, workers, nameVars, primerVars, callVars>>

\* _trimBarCode: the reads file is at its end
TrimEnd ==
    /\ pc = "trim_reads"
    /\ loc.i = Len(TheValue(fs.reads))
    /\ pc' = "trim_cleanup"
    /\ UNCHANGED <<cfg, fs, loc, summary, workers, exc, log, nameVars,
                   primerVars, callVars>>

\* _cleanup of the chunk files of the names generated in this run
RemoveChunks(files, n) ==
    [c \in DOMAIN files \ (0..(n - 1)) |-> files[c]]

\* Mutant: the chunk files are removed whether or not the phase resumed
Cleanup_Unconditional(ph) ==
    /\ pc = CleanupPc(ph)
    /\ fs' = [fs EXCEPT
                !.chunk_reads[ph] = NoFiles,
                !.chunk_dom[ph] = NoFiles]
    /\ pc' = IF ph = "trim" THEN "guard" ELSE "summary"
    /\ UNCHANGED <<cfg, loc, summary, workers, exc, log, nameVars, primerVars, callVars>>

\* lines 745-748 and 814-816
Cleanup(ph) ==
    /\ pc = CleanupPc(ph)
    /\ fs' = IF loc.need_cleanup[ph]
             THEN [fs EXCEPT
                     !.chunk_reads[ph] = RemoveChunks(@, loc.chunked_fns[ph]),
                     !.chunk_dom[ph] = RemoveChunks(@, loc.chunked_fns[ph])]
             ELSE fs
    /\ pc' = IF ph = "trim" THEN "guard" ELSE "summary"
    /\ UNCHANGED <<cfg, loc, summary, workers, exc, log, nameVars, primerVars, callVars>>

\* Mutant: the run goes on whatever num_fl is
Guard_NoCheck ==
    /\ pc = "guard"
    /\ pc' = "chim_checkDom"
    /\ UNCHANGED <<cfg, fs, loc, summary, workers, exc, log, nameVars,
                   primerVars, callVars>>

\* run, lines 842-845
Guard ==
    /\ pc = "guard"
    /\ IF summary.num_fl = 0 THEN Raise(ClassifierException("no_flnc"))
       ELSE pc' = "chim_checkDom" /\ exc' = exc
    /\ UNCHANGED <<cfg, fs, loc, summary, workers, log, nameVars, primerVars, callVars>>

\* runChimeraDetector, lines 760-764
ChimProcessPrimers ==
    /\ pc = "chim_processPrimers"
    /\ LET r == ProcessPrimers(TheValue(fs.primers),
                               cfg.opts.primer_search_window, TRUE)
       IN  IF r.exc # NoExc
           THEN Raise(r.exc) /\ fs' = fs
           ELSE /\ fs' = [fs EXCEPT !.primer_chimera = Some(r.primers)]
                /\ pc' = "chim_chunk"
                /\ exc' = exc
    /\ UNCHANGED <<cfg, loc, summary, workers, log, nameVars, primerVars, callVars>>

\* runChimeraDetector, lines 766-783
ChimChunk ==
    /\ pc = "chim_chunk"
    /\ LET n == summary.num_fl
       IN  /\ fs' = [fs EXCEPT !.chunk_reads["chim"] =
                        WriteChunks(@, ChunkReads(TheValue(fs.fl),
                            ReadsPerChunk(n, cfg.cpus), FALSE,
                            DefaultWindowSize))]
           /\ loc' = [loc EXCEPT !.chunked_fns["chim"] =
                                      NumChunks(n, cfg.cpus)]
    /\ pc' = "chim_launch"
    /\ UNCHANGED <<cfg, summary, workers, exc, log, nameVars, primerVars, callVars>>

\* runChimeraDetector, lines 791-792
ChimParse ==
    /\ pc = "chim_parse"
    /\ loc' = [loc EXCEPT !.suspicous_hits =
                              GetChimeraRecord(TheValue(fs.dom["chim"]),
                                               cfg.opts)]
    /\ pc' = "chim_open"
    /\ UNCHANGED <<cfg, fs, summary, workers, exc, log, nameVars, primerVars, callVars>>

\* the first line of the report: ReadAnnotation.fieldsNames()
FieldsNames == [ID |-> "fieldsNames"]

\* _updateChimeraInfo, lines 433-437
ChimOpen ==
    /\ pc = "chim_open"
    /\ fs' = [fs EXCEPT !.flnc = Some(<<>>), !.flc = Some(<<>>),
                        !.report_fl = Some(<<FieldsNames>>)]
    /\ loc' = [loc EXCEPT !.i = 0]
    /\ pc' = "chim_reads"
    /\ UNCHANGED <<cfg, summary, workers, exc, log, nameVars, primerVars, callVars>>

\* _updateChimeraInfo, lines 438-457: one turn of the loop
ChimRead ==
    /\ pc = "chim_reads"
    /\ loc.i < Len(TheValue(fs.fl))
    /\ LET r          == TheValue(fs.fl)[loc.i + 1]
           readid     == r.name.ID
           annotation == FromString(r.name, cfg.ignore_polyA)
           chimeric   == readid \in DOMAIN loc.suspicous_hits
           updated    == [annotation EXCEPT
                             !.chimera = Some(IF chimeric THEN 1 ELSE 0)]
           rec        == [r EXCEPT !.name = updated]
       IN  IF ~chimeric /\ ~IsFullLength(annotation)
           THEN /\ Raise([type |-> "AssertionError", msg |-> "isFullLength"])
                /\ UNCHANGED <<fs, summary>>
           ELSE /\ fs' = [fs EXCEPT
                            !.flnc = IF chimeric THEN @ ELSE Write(@, rec),
                            !.flc = IF chimeric THEN Write(@, rec) ELSE @,
                            !.report_fl = Write(@, updated)]
                /\ summary' = [summary EXCEPT
                            !.num_flnc = @ + Bump(~chimeric),
                            !.num_flnc_bases =
                                @ + (IF chimeric THEN 0 ELSE Len(r.sequence)),
                            !.num_flc = @ + Bump(chimeric)]
                /\ pc' = pc
                /\ exc' = exc
    /\ loc' = [loc EXCEPT !.i = @ + 1]
    /\ UNCHANGED <<cfg, workers, log, nameVars, primerVars, callVars>>

\* Mutant: the files are merged in the other order
ChimCat_Swapped ==
    /\ pc = "chim_reads"
    /\ loc.i = Len(TheValue(fs.fl))
    /\ fs' = [fs EXCEPT
                !.all_reads = Some(TheValue(fs.nfl) \o TheValue(fs.flnc)),
                !.primer_report =
                    Some(TheValue(fs.report_nfl) \o TheValue(fs.report_fl))]
    /\ pc' = "chim_cleanup"
    /\ UNCHANGED <<cfg, loc, summary, workers, exc, log, nameVars, primerVars, callVars>>

\* Mutant: the chimeric reads are merged too
ChimCat_WithChimeric ==
    /\ pc = "chim_reads"
    /\ loc.i = Len(TheValue(fs.fl))
    /\ fs' = [fs EXCEPT
                !.all_reads = Some(TheValue(fs.flnc) \o TheValue(fs.flc)
                                    \o TheValue(fs.nfl)),
                !.primer_report =
                    Some(TheValue(fs.report_fl) \o TheValue(fs.report_nfl))]
    /\ pc' = "chim_cleanup"
    /\ UNCHANGED <<cfg, loc, summary, workers, exc, log, nameVars, primerVars, callVars>>

\* runChimeraDetector, lines 808-812, once the loop has ended.
\* cat_files(src, dst) writes to dst the files of src one after the other.
ChimCat ==
    /\ pc = "chim_reads"
    /\ loc.i = Len(TheValue(fs.fl))
    /\ fs' = [fs EXCEPT
                !.all_reads = Some(TheValue(fs.flnc) \o TheValue(fs.nfl)),
                !.primer_report =
                    Some(TheValue(fs.report_fl) \o TheValue(fs.report_nfl))]
    /\ pc' = "chim_cleanup"
    /\ UNCHANGED <<cfg, loc, summary, workers, exc, log, nameVars, primerVars, callVars>>

\* run, line 852.  ClassifySummary.write divides by the counters.
SummaryWrite ==
    /\ pc = "summary"
    /\ fs' = [fs EXCEPT !.summary_file = Some(summary)]
    /\ pc' = "cleanup"
    /\ UNCHANGED <<cfg, loc, summary, workers, exc, log, nameVars, primerVars, callVars>>

\* run, lines 857-859: a ZeroDivisionError of the write
SummaryZeroDivision ==
    /\ pc = "summary"
    /\ summary.num_flnc = 0
    /\ Raise(ClassifierException("no_flnc"))
    /\ UNCHANGED <<cfg, fs, loc, summary, workers, log, nameVars, primerVars, callVars>>

\* run, lines 855-856 and 861
FinalCleanup ==
    /\ pc = "cleanup"
    /\ fs' = [fs EXCEPT !.report_nfl = Nothing, !.report_fl = Nothing]
    /\ pc' = "done"
    /\ UNCHANGED <<cfg, loc, summary, workers, exc, log, nameVars, primerVars, callVars>>

\* The program is run again on the same directory with the same arguments,
\* once the processes of the run before have ended.
Rerun ==
    /\ pc \in {"done", "error"}
    /\ \A c \in DOMAIN workers : workers[c] # "running"
    /\ pc' = "validateInputs"
    /\ loc' = InitLoc
    /\ summary' = ClassifySummary
    /\ workers' = EmptyDict
    /\ exc' = NoExc
    /\ log' = <<>>
    /\ UNCHANGED <<cfg, fs, nameVars, primerVars, callVars>>

Next ==
    \/ ValidateInputs
    \/ ValidateOutputs
    \/ CheckPhmmer
    \/ TrimProcessPrimers
    \/ \E ph \in Phases : CheckDom(ph)
    \/ TrimChunk
    \/ \E ph \in Phases : Launch(ph)
    \/ \E c \in 0..(MaxCpus - 1), code \in {0, 1}, wrote \in BOOLEAN :
           WorkerFinish(c, code, wrote)
    \/ \E ph \in Phases : Join(ph)
    \/ TrimParse
    \/ TrimOpen
    \/ TrimRead
    \/ TrimEnd
    \/ \E ph \in Phases : Cleanup(ph)
    \/ Guard
    \/ ChimProcessPrimers
    \/ ChimChunk
    \/ ChimParse
    \/ ChimOpen
    \/ ChimRead
    \/ ChimCat
    \/ SummaryWrite
    \/ SummaryZeroDivision
    \/ FinalCleanup
    \/ Rerun

Spec == Init /\ [][Next]_vars

(***************************************************************************)
(* Specification SpecReducer: _getBestFrontBackRecord called on its own on *)
(* every dom file of at most MaxRows rows taken from ReducerRows.          *)
(***************************************************************************)
MaxRows == 3

\* Rows of the reads a and b: with and without suffix, at query offsets 0,
\* 48 and 49, with scores 10 and 20, and some at primer offset 49
ReducerRows ==
    {DOMRecord(<<"a">> \o sfx, <<"F", 0>>, score, sStart, sStart + 2, 100, 0) :
        sfx \in {<<"_front">>, <<"_back">>, <<>>}, score \in {10, 20},
        sStart \in {0, 48, 49}}
    \cup {DOMRecord(<<"a">> \o sfx, <<"F", 0>>, 20, 0, 2, 100, 49) :
             sfx \in {<<"_front">>, <<>>}}
    \cup {DOMRecord(<<"a", "_front">>, <<"R", 0>>, 20, 0, 2, 100, 0),
          DOMRecord(<<"b", "_front">>, <<"F", 0>>, 20, 0, 2, 100, 0)}

InitReducer ==
    /\ \E rows \in SeqsUpTo(ReducerRows, MaxRows) :
           call = [fn |-> "_getBestFrontBackRecord", rows |-> rows]
    /\ ret = [kind |-> "unset"]
    /\ IdleName
    /\ IdlePrimers
    /\ IdleRun

Raised(e) == [kind |-> "error", exc |-> e]

CallGetBestFrontBackRecord ==
    /\ call.fn = "_getBestFrontBackRecord"
    /\ ret.kind = "unset"
    /\ LET r == GetBestFrontBackRecord(call.rows)
       IN  ret' = IF r.exc # NoExc THEN Raised(r.exc)
                  ELSE [kind |-> "value", front |-> r.front, back |-> r.back]
    /\ UNCHANGED <<call, nameVars, primerVars, runVars>>

NextReducer == CallGetBestFrontBackRecord

SpecReducer == InitReducer /\ [][NextReducer]_vars

(***************************************************************************)
(* _getChimeraRecord on the rows of a call, and the membership test of     *)
(* _updateChimeraInfo (line 441) on the map it returned.                   *)
(***************************************************************************)
ChimeraRows ==
    {DOMRecord(sid, <<"F", 0>>, score, sStart, sEnd, 10, 0) :
        sid \in {<<"a">>, <<"b">>},
        score \in {Opts.min_score, Opts.min_score + 1},
        sStart \in {Opts.min_dist_from_end, Opts.min_dist_from_end + 1},
        sEnd \in {10 - Opts.min_dist_from_end - 1, 10 - Opts.min_dist_from_end}}

ReadIds == {<<"a">>, <<"b">>, <<"c">>}

InitChimera ==
    /\ \E rows \in SeqsUpTo(ChimeraRows, MaxRows) :
           call = [fn |-> "_getChimeraRecord", rows |-> rows, opts |-> Opts]
    /\ ret = [kind |-> "unset"]
    /\ IdleName
    /\ IdlePrimers
    /\ IdleRun

CallGetChimeraRecord ==
    /\ call.fn = "_getChimeraRecord"
    /\ ret.kind = "unset"
    /\ ret' = [kind |-> "value",
               suspicous_hits |-> GetChimeraRecord(call.rows, call.opts)]
    /\ UNCHANGED <<call, nameVars, primerVars, runVars>>

\* Mutant: the test subscripts the defaultdict, which files the default
Contains_Subscript(d, readid) ==
    [found |-> readid \in DOMAIN d /\ d[readid] # <<>>,
     dict  |-> [x \in DOMAIN d \cup {readid} |->
                   IF x \in DOMAIN d THEN d[x] ELSE <<>>]]

\* 'readid not in suspicous_hits' (line 441): __contains__ of a defaultdict
\* does not call the default factory
Contains(d, readid) == [found |-> readid \in DOMAIN d, dict |-> d]

TestReadId(readid) ==
    /\ call.fn = "_getChimeraRecord"
    /\ ret.kind \in {"value", "tested"}
    /\ LET t == Contains(ret.suspicous_hits, readid)
       IN  ret' = [kind |-> "tested", suspicous_hits |-> t.dict,
                   readid |-> readid, found |-> t.found]
    /\ UNCHANGED <<call, nameVars, primerVars, runVars>>

NextChimera ==
    \/ CallGetChimeraRecord
    \/ \E readid \in ReadIds : TestReadId(readid)

SpecChimera == InitChimera /\ [][NextChimera]_vars

(***************************************************************************)
(* _pickBestPrimerCombo on the arguments of a call.  tally is a dict keyed *)
(* by (ind, strand); the order in which iteritems() yields its keys is an  *)
(* argument of the call here.                                              *)
(***************************************************************************)
MaxIndices == 2

ArbiterPids == {<<f, i>> : f \in {"F", "R"}, i \in 0..MaxIndices - 1}

ArbiterHits(p) ==
    {DOMRecord(<<"a">>, p, score, 0, 2, 100, 0) :
        score \in {Opts.min_score - 1, Opts.min_score, Opts.min_score + 1}}

\* best_of_front[read.name], best_of_back[read.name]: None or the hits of
\* up to two primers
ArbiterDicts ==
    {Nothing} \cup
    {Some(d) : d \in UNION {{h \in [S -> UNION {ArbiterHits(p) : p \in S}] :
                                \A p \in S : h[p] \in ArbiterHits(p)} :
                            S \in {T \in SUBSET ArbiterPids : Cardinality(T) <= 2}}}

\* the keys of tally in the order they are filed (lines 503-514)
TallyKeys(primer_indices) ==
    [j \in 1..2 * Len(primer_indices) |->
        <<Some(primer_indices[(j + 1) \div 2]), IF j % 2 = 1 THEN "+" ELSE "-">>]

\* orders of iteration of the dict: the keys as filed or backwards, from
\* any of them on
IterOrders(keys) ==
    {[j \in 1..Len(keys) |-> keys[IF back THEN ((r - j) % Len(keys)) + 1
                                          ELSE ((r + j) % Len(keys)) + 1]] :
        back \in BOOLEAN, r \in 0..Len(keys) - 1}

RECURSIVE BestOfTally_FirstWins(_, _, _, _, _, _)
\* Mutant: a key replaces the one kept only on a greater score
BestOfTally_FirstWins(order, dFront, dBack, i, bestKey, bestScore) ==
    IF i > Len(order) THEN bestKey
    ELSE LET s == Tally(dFront, dBack, TheValue(order[i][1]), order[i][2])
         IN  IF bestScore < s
             THEN BestOfTally_FirstWins(order, dFront, dBack, i + 1, order[i], s)
             ELSE BestOfTally_FirstWins(order, dFront, dBack, i + 1, bestKey, bestScore)

RECURSIVE BestOfTally(_, _, _, _, _, _)
\* lines 516-520 from the i-th key of the order on
BestOfTally(order, dFront, dBack, i, bestKey, bestScore) ==
    IF i > Len(order) THEN bestKey
    ELSE LET s == Tally(dFront, dBack, TheValue(order[i][1]), order[i][2])
         IN  IF bestScore <= s
             THEN BestOfTally(order, dFront, dBack, i + 1, order[i], s)
             ELSE BestOfTally(order, dFront, dBack, i + 1, bestKey, bestScore)

InitArbiter ==
    /\ \E n \in 1..MaxIndices, dFront \in ArbiterDicts, dBack \in ArbiterDicts :
           \E order \in IterOrders(TallyKeys([i \in 1..n |-> i - 1])) :
               call = [fn |-> "_pickBestPrimerCombo", dFront |-> dFront,
                       dBack |-> dBack, primer_indices |-> [i \in 1..n |-> i - 1],
                       min_score |-> Opts.min_score, order |-> order]
    /\ ret = [kind |-> "unset"]
    /\ IdleName
    /\ IdlePrimers
    /\ IdleRun

CallPickBestPrimerCombo ==
    /\ call.fn = "_pickBestPrimerCombo"
    /\ ret.kind = "unset"
    /\ LET key == BestOfTally(call.order, call.dFront, call.dBack, 1,
                              <<Nothing, "None">>, InitialBestScore)
       IN  ret' = Returned(ComboResult(call.dFront, call.dBack, key,
                                       call.min_score))
    /\ UNCHANGED <<call, nameVars, primerVars, runVars>>

NextArbiter == CallPickBestPrimerCombo

SpecArbiter == InitArbiter /\ [][NextArbiter]_vars

(***************************************************************************)
(* The body of the loop of _trimBarCode for one read with a primer hit     *)
(* (lines 601-653), on its own: reads of up to MaxFlank bases, C's then    *)
(* G's, on either side of nothing, 8 A's or 8 T's; the 5' hit and the 3'   *)
(* hit are None or end at 0, at 2 or at the end of their side.             *)
(***************************************************************************)
MaxFlank == 5

\* C's then G's, MaxFlank bases at most
TrimFlanks ==
    {Rep("C", ab[1]) \o Rep("G", ab[2]) :
        ab \in {x \in (0..MaxFlank) \X (0..MaxFlank) : x[1] + x[2] <= MaxFlank}}

TrimSeqs ==
    {pre \o mid \o post :
        pre \in TrimFlanks,
        mid \in {<<>>, Rep("A", MinANum), Rep("T", MinANum)},
        post \in TrimFlanks} \ {<<>>}

TrimNames ==
    {<<"m", "/", "1", "/", "ccs">>, <<"m", "/", "1", "/", "5", "_", "9">>}

\* fw and rc as _pickBestPrimerCombo returns them; sEnd is within the read
TrimHits(seq, pid) ==
    {Nothing} \cup
    {Some(DOMRecord(<<"r">>, pid, Opts.min_score, 0, sEnd, Len(seq), 0)) :
        sEnd \in {0, 2, Len(seq)} \cap 0..Len(seq)}

InitTrim ==
    /\ \E seq \in TrimSeqs, name \in TrimNames, strand \in {"+", "-"} :
           \E fw \in TrimHits(seq, <<"F", 0>>), rc \in TrimHits(seq, <<"R", 0>>) :
               /\ IsSome(fw) \/ IsSome(rc)
               /\ \E change_read_id \in BOOLEAN :
                      call = [fn |-> "_trimBarCode",
                              read |-> [name |-> name, sequence |-> seq],
                              combo |-> [primerIndex |-> Some(0), strand |-> strand,
                                         fw |-> fw, rc |-> rc],
                              change_read_id |-> change_read_id]
    /\ ret = [kind |-> "unset"]
    /\ IdleName
    /\ IdlePrimers
    /\ IdleRun

CallTrimOne ==
    /\ call.fn = "_trimBarCode"
    /\ ret.kind = "unset"
    /\ ret' = Returned(TrimOne(call.read, PBReadInit(call.read), call.combo,
                               Opts.min_seq_len, call.change_read_id, FALSE))
    /\ UNCHANGED <<call, nameVars, primerVars, runVars>>

NextTrim == CallTrimOne

SpecTrim == InitTrim /\ [][NextTrim]_vars

(***************************************************************************)
(* The chunking of a search phase on its own: lines 697-719 (trim) and     *)
(* 766-783 (chimera) for a reads file of n reads and cpus workers.         *)
(***************************************************************************)
MaxChunkReads == 8
MaxChunkCpus == 5

\* the reads file of n reads
ChunkFile(n) ==
    [i \in 1..n |-> [name |-> <<"r", i>>, sequence |-> <<"C", "G", "T">>,
                     key |-> i]]

InitChunks ==
    /\ \E n \in 1..MaxChunkReads, cpus \in 1..MaxChunkCpus, ph \in Phases :
           call = [fn |-> "_chunkReads", reads |-> ChunkFile(n), cpus |-> cpus,
                   phase |-> ph]
    /\ ret = [kind |-> "unset"]
    /\ IdleName
    /\ IdlePrimers
    /\ IdleRun

\* num_chunks names are generated, _chunkReads writes the chunk files
CallChunkReads ==
    /\ call.fn = "_chunkReads"
    /\ ret.kind = "unset"
    /\ LET n == Len(call.reads)
       IN  ret' = [kind |-> "value",
                   reads_per_chunk |-> ReadsPerChunk(n, call.cpus),
                   num_chunks |-> NumChunks(n, call.cpus),
                   chunks |-> ChunkReads(call.reads,
                                  ReadsPerChunk(n, call.cpus),
                                  call.phase = "trim",
                                  IF call.phase = "trim"
                                  THEN Opts.primer_search_window
                                  ELSE DefaultWindowSize)]
    /\ UNCHANGED <<call, nameVars, primerVars, runVars>>

NextChunks == CallChunkReads

SpecChunks == InitChunks /\ [][NextChunks]_vars

(***************************************************************************)
(* The shapes of read names, stated on the name alone.                     *)
(***************************************************************************)
AllDigits(s, lo, hi) == lo <= hi /\ \A x \in lo..hi : IsDigit(s[x])
NoSlash(s, lo, hi) == lo <= hi /\ \A x \in lo..hi : s[x] # "/"

\* <movie>/<well>/<start>_<end>, the separators at a, b and c
SubreadForm(s, a, b, c) ==
    /\ a < b /\ b < c
    /\ s[a] = "/" /\ s[b] = "/" /\ s[c] = "_"
    /\ NoSlash(s, 1, a - 1)
    /\ AllDigits(s, a + 1, b - 1)
    /\ AllDigits(s, b + 1, c - 1)
    /\ AllDigits(s, c + 1, Len(s))

\* <movie>/<well>/ccs, the separators at a and b
CcsForm(s, a, b) ==
    /\ a < b
    /\ s[a] = "/" /\ s[b] = "/"
    /\ NoSlash(s, 1, a - 1)
    /\ AllDigits(s, a + 1, b - 1)
    /\ b + 1 = Len(s) /\ s[b + 1] = "ccs"

\* <movie>/<well>, the separator at a
BareForm(s, a) ==
    /\ s[a] = "/"
    /\ NoSlash(s, 1, a - 1)
    /\ AllDigits(s, a + 1, Len(s))

\* Some substring of s has the shape of one of the three patterns.
MatchesSomePattern(s) ==
    \E j \in 2..Len(s) :
        /\ s[j] = "/"
        /\ \/ AllDigits(s, j + 1, Len(s))
           \/ \E k \in (j + 1)..(Len(s) - 1) :
                 /\ s[k + 1] = "/"
                 /\ AllDigits(s, j + 1, k)
                 /\ \/ k + 2 <= Len(s) /\ s[k + 2] = "ccs"
                    \/ \E l \in (k + 2)..(Len(s) - 1) :
                          /\ s[l + 1] = "_"
                          /\ AllDigits(s, k + 2, l)
                          /\ \E e \in (l + 2)..Len(s) :
                                AllDigits(s, l + 2, e)

(***************************************************************************)
(* C4: a name <movie>/<well>/<start>_<end> parses to well, start and end   *)
(* taken from the name with isCCS false; a name <movie>/<well>/ccs or       *)
(* <movie>/<well> parses to isCCS true, start 0 and end len(sequence); a    *)
(* name matching none of the three patterns raises an error and yields no  *)
(* read.                                                                   *)
(***************************************************************************)
C4_ReadNameParsing ==
    pb_out.kind # "unset" =>
        LET s == pb_in.name
            I == 1..Len(s)
            Slashes == {a \in I : s[a] = "/"}
        IN  /\ \A a \in Slashes : \A b \in Slashes :
                  \A c \in {x \in I : x > b /\ s[x] = "_"} :
                      SubreadForm(s, a, b, c) =>
                          /\ pb_out.kind = "read"
                          /\ pb_out.isCCS = FALSE
                          /\ pb_out.movie = SubSeq(s, 1, a - 1)
                          /\ pb_out.zmw = ToInt(SubSeq(s, a + 1, b - 1))
                          /\ pb_out.start = ToInt(SubSeq(s, b + 1, c - 1))
                          /\ pb_out.end = ToInt(SubSeq(s, c + 1, Len(s)))
            /\ \A a \in Slashes : \A b \in Slashes :
                  (CcsForm(s, a, b) \/ (a = b /\ BareForm(s, a))) =>
                      /\ pb_out.kind = "read"
                      /\ pb_out.isCCS = TRUE
                      /\ pb_out.movie = SubSeq(s, 1, a - 1)
                      /\ pb_out.zmw =
                            ToInt(SubSeq(s, a + 1,
                                         IF a = b THEN Len(s) ELSE b - 1))
                      /\ pb_out.start = 0
                      /\ pb_out.end = Len(pb_in.sequence)
            /\ ~MatchesSomePattern(s) => pb_out = ValueError

\* m/1/1_1 has been parsed as a subread, m/1/ccs is covered by the same run
C4_Witness ==
    /\ pb_in.name = <<"m", "/", "1", "/", "1", "_", "1">>
    /\ pb_out.kind = "read"
    /\ pb_out.isCCS = FALSE

(***************************************************************************)
(* The primer file, stated on its records alone.                           *)
(***************************************************************************)
\* The name record number i (from 1) must carry: F0, R0, F1, R1, ...
ExpectedNameAt(i) == <<IF i % 2 = 1 THEN "F" ELSE "R", (i - 1) \div 2>>

Offending(i) ==
    \/ pp_file[i].name # ExpectedNameAt(i)
    \/ Len(pp_file[i].sequence) > pp_window

OffendingRecords == {i \in 1..Len(pp_file) : Offending(i)}

Min(S) == CHOOSE x \in S : \A y \in S : x <= y

\* x occurs in y at some offset
OccursIn(x, y) ==
    \E i \in 1..(Len(y) + 1) :
        /\ i + Len(x) - 1 <= Len(y)
        /\ \A k \in 1..Len(x) : y[i + k - 1] = x[k]

FwdOf(p) == pp_file[2 * p - 1].sequence
RevOf(p) == pp_file[2 * p].sequence
SelfIdentical(p) ==
    \/ OccursIn(Revcmp(RevOf(p)), FwdOf(p))
    \/ OccursIn(FwdOf(p), Revcmp(RevOf(p)))

PolyT == <<"T", "T", "T", "T">>
PolyATag == <<"A", "A", "A", "A">>

C6_PrimerRecordsWritten ==
    (pp_pc = "done" /\ Len(pp_file) % 2 = 0) =>
        LET n   == Len(pp_file) \div 2
            per == IF pp_revcmp THEN 4 ELSE 2
        IN  /\ Len(pp_out) = per * n
            /\ pp_ret = 0..(n - 1)
            /\ \A p \in 1..n :
                  LET b    == per * (p - 1)
                      tagT == IF SelfIdentical(p) THEN PolyT ELSE <<>>
                      tagA == IF SelfIdentical(p) THEN PolyATag ELSE <<>>
                  IN  /\ pp_out[b + 1] = << <<"F", p - 1>>, FwdOf(p) >>
                      /\ ~pp_revcmp =>
                            pp_out[b + 2] =
                                << <<"R", p - 1>>, Revcmp(RevOf(p)) \o tagT >>
                      /\ pp_revcmp =>
                            /\ pp_out[b + 2] =
                                  << <<"R", p - 1>>, tagA \o RevOf(p) >>
                            /\ pp_out[b + 3] =
                                  << <<"F", p - 1, "_revcmp">>,
                                     Revcmp(FwdOf(p)) >>
                            /\ pp_out[b + 4] =
                                  << <<"R", p - 1, "_revcmp">>,
                                     Revcmp(RevOf(p)) \o tagT >>

\* two pairs were written in chimera mode
C6_Witness ==
    /\ pp_pc = "done"
    /\ pp_revcmp
    /\ Len(pp_file) = 4
    /\ Len(pp_out) = 8

RunReads == TheValue(fs.reads)

\* the records of a file that come from the read of a given key
FromRead(f, key) == {k \in 1..Len(Content(f)) : Content(f)[k].key = key}

\* the reads filtered as too short, by the decisions of _trimBarCode
ShortKeys == {RunReads[k].key : k \in {j \in 1..Len(log) : log[j].route = "short"}}

Dispositions(read) ==
    {d \in {"short", "nfl", "flc", "flnc"} :
        CASE d = "short" -> read.key \in ShortKeys
          [] d = "nfl"   -> FromRead(fs.nfl, read.key) # {}
          [] d = "flc"   -> FromRead(fs.flc, read.key) # {}
          [] d = "flnc"  -> FromRead(fs.flnc, read.key) # {}}

\* C1: after a complete run over n reads every read has exactly one
\* disposition among filtered-too-short, non-full-length, full-length
\* chimeric and full-length non-chimeric, and the counters partition the
\* input: num_reads = n = num_filtered_short_reads + num_nfl + num_flc +
\* num_flnc, with num_fl = num_flc + num_flnc; each counter is the number of
\* reads of its disposition.
C1_SummaryPartition ==
    pc = "done" =>
        LET n == Len(RunReads)
        IN  /\ summary.num_reads = n
            /\ n = summary.num_filtered_short_reads + summary.num_nfl
                   + summary.num_flc + summary.num_flnc
            /\ summary.num_fl = summary.num_flc + summary.num_flnc
            /\ \A k \in 1..n : Cardinality(Dispositions(RunReads[k])) = 1
            /\ summary.num_filtered_short_reads = Cardinality(ShortKeys)
            /\ summary.num_nfl = Len(TheValue(fs.nfl))
            /\ summary.num_flc = Len(TheValue(fs.flc))
            /\ summary.num_flnc = Len(TheValue(fs.flnc))
            /\ \A k \in 1..n :
                   /\ Cardinality(FromRead(fs.nfl, RunReads[k].key)) <= 1
                   /\ Cardinality(FromRead(fs.flc, RunReads[k].key)) <= 1
                   /\ Cardinality(FromRead(fs.flnc, RunReads[k].key)) <= 1

\* a complete run of two reads, one chimeric and one not
C1_Witness ==
    /\ pc = "done"
    /\ Len(RunReads) = 2
    /\ summary.num_flc = 1
    /\ summary.num_flnc = 1

\* C2, as stated: the trim phase routes a read as full-length if and only if
\* a 5' hit and a 3' hit were accepted for it, whatever the poly-A search
\* found and whatever the poly-A flag says.
C2_FullLengthIffBothPrimers ==
    pc # "idle" =>
        \A k \in 1..Len(log) :
            (log[k].route = "fl") <=> (log[k].fw /\ log[k].rc)

\* C2, amended: the trim phase routes a read as full-length if and only if
\* a 5' hit and a 3' hit were accepted for it, a poly-A tail was found or
\* ignore_polyA is set, and the trimmed sequence has at least min_seq_len
\* bases; the read is then, and only then, written to the full-length file.
C2_FullLengthRouting ==
    pc # "idle" =>
        \A k \in 1..Len(log) :
            LET fl == /\ log[k].fw
                      /\ log[k].rc
                      /\ (cfg.ignore_polyA \/ log[k].polyA)
                      /\ log[k].len >= cfg.opts.min_seq_len
            IN  /\ (log[k].route = "fl") <=> fl
                /\ (FromRead(fs.fl, RunReads[k].key) # {}) <=> fl

\* both hits accepted, no poly-A tail, the flag not set: not full-length
C2_Witness ==
    /\ pc = "trim_cleanup"
    /\ ~cfg.ignore_polyA
    /\ \E k \in 1..Len(log) :
           log[k].fw /\ log[k].rc /\ ~log[k].polyA /\ log[k].route = "nfl"

\* the rows of the chimera dom file that lie in the middle of read ID
BodyHit(ID) ==
    LET dom == TheValue(fs.dom["chim"])
    IN  \E j \in 1..Len(dom) :
            /\ dom[j].sid = ID
            /\ dom[j].sStart > cfg.opts.min_dist_from_end
            /\ dom[j].sEnd < dom[j].sLen - cfg.opts.min_dist_from_end
            /\ dom[j].score > cfg.opts.min_score

ChimeraLoopPcs == {"chim_reads", "chim_cleanup", "summary", "cleanup"}

\* C3: in the chimera phase every record of the full-length file read so far
\* is flagged chimeric iff its id has a hit in the middle of the read; the
\* chimeric records are exactly the records of the chimeric output and the
\* others exactly those of the non-chimeric output, in order and once each;
\* the report has one row for each after its header; num_flc and num_flnc
\* count the two outputs; no non-full-length record has a chimera flag or
\* is in the chimeric output.
C3_ChimeraRouting ==
    pc \in ChimeraLoopPcs =>
        LET fl      == TheValue(fs.fl)
            p       == IF pc = "chim_reads" THEN loc.i ELSE Len(fl)
            flag(r) == Some(IF BodyHit(r.name.ID) THEN 1 ELSE 0)
            marked  == [k \in 1..p |-> [fl[k] EXCEPT !.name.chimera = flag(fl[k])]]
            nfl     == TheValue(fs.nfl)
        IN  /\ \A k \in 1..p :
                   BodyHit(fl[k].name.ID)
                       <=> fl[k].name.ID \in DOMAIN loc.suspicous_hits
            /\ TheValue(fs.flc)
                   = SelectSeq(marked, LAMBDA r : r.name.chimera = Some(1))
            /\ TheValue(fs.flnc)
                   = SelectSeq(marked, LAMBDA r : r.name.chimera = Some(0))
            /\ Len(TheValue(fs.report_fl)) = p + 1
            /\ \A k \in 1..p : TheValue(fs.report_fl)[k + 1] = marked[k].name
            /\ summary.num_flc = Len(TheValue(fs.flc))
            /\ summary.num_flnc = Len(TheValue(fs.flnc))
            /\ \A k \in 1..Len(nfl) :
                   /\ nfl[k].name.chimera = Nothing
                   /\ FromRead(fs.flc, nfl[k].key) = {}

\* one chimeric and one non-chimeric record written
C3_Witness ==
    /\ pc = "chim_cleanup"
    /\ Len(TheValue(fs.flc)) = 1
    /\ Len(TheValue(fs.flnc)) = 1
    /\ TheValue(fs.nfl) = <<>>

PastSearch(ph) ==
    (IF ph = "trim"
     THEN {"trim_parse", "trim_open", "trim_reads", "trim_cleanup", "guard",
           "chim_checkDom", "chim_processPrimers", "chim_chunk",
           "chim_launch", "chim_join"}
     ELSE {})
    \cup {"chim_parse", "chim_open", "chim_reads", "chim_cleanup", "summary",
          "cleanup", "done"}

\* C8: if a phmmer process launched for a chunk exits with a non-zero code,
\* the run is aborted: it never goes on to parse the combined dom file of
\* that phase and to classify reads.
C8_WorkerFailureAborts ==
    pc # "idle" =>
        \A ph \in Phases :
            (\E c \in 0..MaxCpus : <<ph, c>> \in loc.failed)
                => pc \notin PastSearch(ph)

CheckDomPc(ph) == IF ph = "trim" THEN "trim_checkDom" ELSE "chim_checkDom"

AfterPhase(ph) ==
    (IF ph = "trim"
     THEN {"guard", "chim_checkDom", "chim_processPrimers", "chim_chunk",
           "chim_launch", "chim_join", "chim_parse", "chim_open",
           "chim_reads", "chim_cleanup"}
     ELSE {})
    \cup {"summary", "cleanup", "done"}

\* C9: a phase resumes iff its combined dom file exists when the phase
\* looks for it.  In a phase that resumes no chunk file is written or
\* deleted and no phmmer process is started; in a phase that does not, the
\* chunks are written and searched by one process each, and once the phase
\* has ended the chunk reads files and chunk dom files of the run are gone.
C9_ResumeByPresence ==
    /\ [](pc # "idle" =>
            \A ph \in Phases :
                /\ ~loc.need_cleanup[ph]
                       => loc.launched[ph] = 0 /\ loc.chunked_fns[ph] = 0
                /\ loc.need_cleanup[ph] /\ pc \in AfterPhase(ph)
                       => /\ loc.chunked_fns[ph] >= 1
                          /\ loc.launched[ph] = loc.chunked_fns[ph]
                          /\ \A c \in 0..(loc.chunked_fns[ph] - 1) :
                                 /\ c \notin DOMAIN fs.chunk_reads[ph]
                                 /\ c \notin DOMAIN fs.chunk_dom[ph])
    /\ [][pc # "idle" =>
            \A ph \in Phases :
                /\ pc = CheckDomPc(ph)
                       => loc'.need_cleanup[ph] = ~IsSome(fs.dom[ph])
                /\ ~loc.need_cleanup[ph]
                       => /\ fs'.chunk_reads[ph] = fs.chunk_reads[ph]
                          /\ fs'.chunk_dom[ph] = fs.chunk_dom[ph]]_vars

\* a run that resumed its trim phase with chunk files of an aborted run in
\* the directory, and searched in its chimera phase
C9_Witness ==
    /\ pc = "done"
    /\ ~loc.need_cleanup["trim"]
    /\ DOMAIN fs.chunk_reads["trim"] # {}
    /\ loc.need_cleanup["chim"]
    /\ loc.launched["chim"] >= 1

\* C10: every error that ends a run is a ClassifierException.
C10_OnlyClassifierExceptions ==
    pc = "error" => exc.type = "ClassifierException"


(***************************************************************************)
(* The order of the steps of run.                                          *)
(***************************************************************************)
TrimPcs == {"trim_processPrimers", "trim_checkDom", "trim_chunk",
            "trim_launch", "trim_join", "trim_parse", "trim_open",
            "trim_reads", "trim_cleanup"}
ChimPcs == {"chim_checkDom", "chim_processPrimers", "chim_chunk",
            "chim_launch", "chim_join", "chim_parse", "chim_open",
            "chim_reads", "chim_cleanup"}

\* the position of a step in run (lines 830-861)
Stage(p) ==
    CASE p = "validateInputs"  -> 1
      [] p = "validateOutputs" -> 2
      [] p = "checkPhmmer"     -> 3
      [] p \in TrimPcs         -> 4
      [] p = "guard"           -> 5
      [] p \in ChimPcs         -> 6
      [] p = "summary"         -> 7
      [] p = "cleanup"         -> 8
      [] p = "done"            -> 9
      [] OTHER                 -> 0

\* C11: run goes through validate inputs, validate outputs, check phmmer,
\* the trim phase, the guard, the chimera phase, the summary write and the
\* cleanup of the reports in that order, each step followed by itself, the
\* next one or the end of the run by an exception.  The chimera phase and
\* what follows it only run once the trim phase has processed every read
\* and has found a full-length read.  At the guard, with no full-length
\* read, the run ends with a ClassifierException and no file is touched;
\* nothing runs after an exception but a new run.
C11_StepOrder ==
    /\ [](pc # "idle" /\ Stage(pc) >= 6
            => /\ Len(log) = Len(RunReads)
               /\ summary.num_reads = Len(RunReads)
               /\ summary.num_fl >= 1)
    /\ [][pc # "idle" =>
            /\ Stage(pc) \in 1..8
                   => \/ pc' = "error"
                      \/ Stage(pc') = Stage(pc)
                      \/ Stage(pc') = Stage(pc) + 1
            /\ pc = "guard" /\ summary.num_fl = 0
                   => /\ pc' = "error"
                      /\ exc'.type = "ClassifierException"
                      /\ fs' = fs
            /\ pc \in {"error", "done"}
                   => pc' = pc \/ (pc' = "validateInputs" /\ fs' = fs)]_vars

\* the guard has ended a run whose trim phase found no full-length read
C11_Witness ==
    /\ pc = "error"
    /\ exc = ClassifierException("no_flnc")
    /\ summary.num_fl = 0
    /\ Len(log) = 2
    /\ ~IsSome(fs.all_reads)
    /\ ~IsSome(fs.summary_file)


\* C12: once the chimera phase has merged its outputs, the combined FASTA
\* is the full-length (non-chimeric) output followed by the non-full-length
\* output, and the primer report is the report of the full-length reads, its
\* header first, followed by the report of the non-full-length reads; the
\* steps that follow leave the two merged files as they are.
C12_MergedOutputs ==
    /\ [](pc \in {"chim_cleanup", "summary", "cleanup", "done"}
            => fs.all_reads = Some(TheValue(fs.flnc) \o TheValue(fs.nfl)))
    /\ [](pc \in {"chim_cleanup", "summary", "cleanup"}
            => /\ fs.primer_report
                      = Some(TheValue(fs.report_fl) \o TheValue(fs.report_nfl))
               /\ TheValue(fs.primer_report)[1] = FieldsNames)
    /\ [][(pc \in {"chim_cleanup", "summary", "cleanup"})
            => /\ fs'.all_reads = fs.all_reads
               /\ fs'.primer_report = fs.primer_report]_vars

\* a full-length and a non-full-length read merged
C12_Witness ==
    /\ pc = "done"
    /\ Len(TheValue(fs.flnc)) = 1
    /\ Len(TheValue(fs.nfl)) = 1
    /\ Len(TheValue(fs.all_reads)) = 2
    /\ TheValue(fs.all_reads)[1] = TheValue(fs.flnc)[1]
    /\ Len(TheValue(fs.primer_report)) = 3


\* the rows of the report of the non-full-length reads written for read k
ReportRows(k) ==
    {j \in 1..Len(TheValue(fs.report_nfl)) :
        TheValue(fs.report_nfl)[j].ID = log[k].ID}

\* C13: for a read whose trimmed sequence is shorter than min_seq_len
\* nothing is written, no FASTA record in any output and no report row,
\* whether or not it has primer evidence.
C13_ShortReadsWriteNothing ==
    pc \in {"trim_reads", "trim_cleanup"} =>
        \A k \in 1..Len(log) :
            log[k].len < cfg.opts.min_seq_len
                => /\ log[k].route = "short"
                   /\ FromRead(fs.fl, RunReads[k].key) = {}
                   /\ FromRead(fs.nfl, RunReads[k].key) = {}
                   /\ ReportRows(k) = {}


(***************************************************************************)
(* _findPolyA.  Positions are Python's: the base at position i of seq is   *)
(* seq[i + 1].                                                             *)
(***************************************************************************)
\* where the search of a call starts: three_start - 50, or len(seq) - 50,
\* counted from the end when negative
SearchStart ==
    LET s == IF IsSome(call.three_start)
             THEN TheValue(call.three_start) - PolyAOffset
             ELSE Len(call.seq) - PolyAOffset
        w == IF s < 0 THEN s + Len(call.seq) ELSE s
    IN  IF w < 0 THEN 0 ELSE w

\* the positions of the searched region where 8 A's in a row begin
RunsOfA ==
    {i \in SearchStart..(Len(call.seq) - MinANum) :
        \A x \in 1..MinANum : call.seq[i + x] = "A"}

NonA(j, i) == Cardinality({x \in j..i : call.seq[x + 1] # "A"})

\* C14, as stated: the finder returns the position of the first A of a run
\* of at least 8 A's whenever the searched region holds such a run, and -1
\* whenever it holds none.
C14_FirstAOfRun ==
    call.fn = "_findPolyA" /\ ret.kind = "value" =>
        IF RunsOfA = {} THEN ret.value = -1
        ELSE /\ ret.value \in RunsOfA
             /\ ret.value = 0 \/ call.seq[ret.value] # "A"

\* C14, what _findPolyA returns: let i be the last position of the searched region where 8
\* A's in a row begin.  The finder returns -1 if there is no such position
\* or if i = 0; otherwise it returns the least j <= i such that the bases
\* from j to i hold at most two bases that are not A.
C14_PolyAFinder ==
    call.fn = "_findPolyA" /\ ret.kind = "value" =>
        IF RunsOfA = {} \/ Max(RunsOfA) = 0 THEN ret.value = -1
        ELSE LET i == Max(RunsOfA)
             IN  /\ ret.value \in 0..i
                 /\ NonA(ret.value, i) <= 2
                 /\ \A j \in 0..(ret.value - 1) : NonA(j, i) > 2

\* CCCAAAAAAAACC: the run begins at 3, the finder returns 1
C14_Witness ==
    /\ call.fn = "_findPolyA"
    /\ call.seq = Rep("C", 3) \o Rep("A", 8) \o Rep("C", 2)
    /\ call.three_start = Nothing
    /\ ret = Returned(1)


(***************************************************************************)
(* _getBestFrontBackRecord on the rows of a call.                          *)
(***************************************************************************)
Suffixed(k) ==
    \/ EndsWith(call.rows[k].sid, "_front")
    \/ EndsWith(call.rows[k].sid, "_back")

\* C15: every row whose query id ends with neither _front nor _back makes
\* the reducer fail, whatever its offsets and its score.
C15_UnsuffixedRowIsFatal ==
    call.fn = "_getBestFrontBackRecord" /\ ret.kind # "unset" =>
        ((\E k \in 1..Len(call.rows) : ~Suffixed(k)) => ret.kind = "error")

\* the rows within the offsets
Surviving ==
    {k \in 1..Len(call.rows) :
        call.rows[k].sStart <= 48 /\ call.rows[k].pStart <= 48}

\* the surviving rows of query q and primer p with the given suffix
HitsOf(sfx, q, p) ==
    {k \in Surviving : call.rows[k].sid = Append(q, sfx) /\ call.rows[k].pid = p}

\* the earliest of the rows of K with the greatest score
BestOf(K) ==
    Min({k \in K : \A k2 \in K : call.rows[k2].score <= call.rows[k].score})

ReducedMap(m, sfx) ==
    /\ DOMAIN m = {StripSuffix(call.rows[k].sid) :
                      k \in {x \in Surviving : EndsWith(call.rows[x].sid, sfx)}}
    /\ \A q \in DOMAIN m :
           /\ DOMAIN m[q] = {call.rows[k].pid :
                                k \in {x \in Surviving :
                                          call.rows[x].sid = Append(q, sfx)}}
           /\ \A p \in DOMAIN m[q] :
                  m[q][p] = [call.rows[BestOf(HitsOf(sfx, q, p))]
                                EXCEPT !.sid = q]

\* C16: when the reducer returns, a row with sStart > 48 or pStart > 48 is
\* in neither map; the front (back) map has the queries of the other _front
\* (_back) rows, under their id without the suffix, and for each of them
\* the primers of these rows; the hit kept for a query and a primer is the
\* earliest of its rows with the greatest score, its sid without the suffix.
C16_BestFrontBack ==
    call.fn = "_getBestFrontBackRecord" /\ ret.kind = "value" =>
        /\ ReducedMap(ret.front, "_front")
        /\ ReducedMap(ret.back, "_back")

\* two rows of the same query and primer with the same score, a better row
\* beyond the offset, a third row after them: the first is kept
C16_Witness ==
    /\ call.fn = "_getBestFrontBackRecord"
    /\ ret.kind = "value"
    /\ Len(call.rows) = 3
    /\ call.rows[1] = DOMRecord(<<"a", "_front">>, <<"F", 0>>, 10, 0, 2, 100, 0)
    /\ call.rows[2] = DOMRecord(<<"a", "_front">>, <<"F", 0>>, 20, 49, 51, 100, 0)
    /\ call.rows[3] = DOMRecord(<<"a", "_front">>, <<"F", 0>>, 10, 48, 50, 100, 0)
    /\ ret.front[<<"a">>][<<"F", 0>>].sStart = 0


(***************************************************************************)
(* _getChimeraRecord and the membership test on its map.                   *)
(***************************************************************************)
\* the rows of the call that are in the middle of the read with a score
\* above the minimum
Qualifying ==
    {k \in 1..Len(call.rows) :
        /\ call.rows[k].sStart > call.opts.min_dist_from_end
        /\ call.rows[k].sEnd < call.rows[k].sLen - call.opts.min_dist_from_end
        /\ call.rows[k].score > call.opts.min_score}

RECURSIVE RowsOf(_, _)
\* the rows of the index set K in the order of the file, from row k on
RowsOf(K, k) ==
    IF k > Len(call.rows) THEN <<>>
    ELSE (IF k \in K THEN <<call.rows[k]>> ELSE <<>>) \o RowsOf(K, k + 1)

\* C17: the map returned by _getChimeraRecord has a key for a query id iff
\* one of its rows has sStart > min_dist_from_end, sEnd < sLen -
\* min_dist_from_end and score > min_score, and lists for it exactly these
\* rows in the order of the file; testing whether a read id is in the map
\* leaves the map as it was.
C17_ChimeraRecord ==
    call.fn = "_getChimeraRecord" /\ ret.kind # "unset" =>
        /\ DOMAIN ret.suspicous_hits = {call.rows[k].sid : k \in Qualifying}
        /\ \A q \in DOMAIN ret.suspicous_hits :
               ret.suspicous_hits[q] =
                   RowsOf({k \in Qualifying : call.rows[k].sid = q}, 1)
        /\ ret.kind = "tested" =>
               (ret.found <=> \E k \in Qualifying : call.rows[k].sid = ret.readid)

\* a read id whose only rows fail by one equality each is tested after the
\* map was built from them and from a qualifying row of another read
C17_Witness ==
    /\ call.fn = "_getChimeraRecord"
    /\ ret.kind = "tested"
    /\ ret.readid = <<"a">>
    /\ ~ret.found
    /\ Len(call.rows) = 3
    /\ call.rows[1] = DOMRecord(<<"a">>, <<"F", 0>>, Opts.min_score, 2, 8, 10, 0)
    /\ call.rows[2] = DOMRecord(<<"b">>, <<"F", 0>>, Opts.min_score + 1, 2, 8, 10, 0)
    /\ call.rows[3] = DOMRecord(<<"a">>, <<"F", 0>>, Opts.min_score + 1, 1, 8, 10, 0)
    /\ DOMAIN ret.suspicous_hits = {<<"b">>}


(***************************************************************************)
(* _pickBestPrimerCombo on the arguments of a call.                        *)
(***************************************************************************)
\* the hit of primer p is not in the dict d of a read (or d is None)
Missing(d, p) == ~IsSome(d) \/ p \notin DOMAIN TheValue(d)

HitScore(d, p) == IF Missing(d, p) THEN 0 ELSE TheValue(d)[p].score

Hypotheses ==
    {<<call.primer_indices[j], st>> :
        j \in 1..Len(call.primer_indices), st \in {"+", "-"}}

\* the summed score of the hypothesis h = (i, strand)
Sum(h) ==
    IF h[2] = "+"
    THEN HitScore(call.dFront, <<"F", h[1]>>) + HitScore(call.dBack, <<"R", h[1]>>)
    ELSE HitScore(call.dFront, <<"R", h[1]>>) + HitScore(call.dBack, <<"F", h[1]>>)

Selected == <<TheValue(ret.value.primerIndex), ret.value.strand>>

ArbiterReturned == call.fn = "_pickBestPrimerCombo" /\ ret.kind = "value"

\* C18: the (combo, strand) returned has the greatest summed score, the
\* sum of (i, +) being front[F_i] + back[R_i] and the sum of (i, -) being
\* front[R_i] + back[F_i] with 0 for a hit that is missing; a hypothesis
\* whose sum is greater than every other sum is the one returned.
C18_MaximumSum ==
    ArbiterReturned =>
        /\ IsSome(ret.value.primerIndex)
        /\ Selected \in Hypotheses
        /\ \A h \in Hypotheses : Sum(h) <= Sum(Selected)
        /\ \A h \in Hypotheses :
               (\A h2 \in Hypotheses \ {h} : Sum(h2) < Sum(h)) => Selected = h

\* (0, -) wins alone with one of its two hits missing, against another
\* hypothesis with a hit
C18_Witness ==
    /\ ArbiterReturned
    /\ Selected = <<0, "-">>
    /\ Missing(call.dBack, <<"F", 0>>)
    /\ \A h \in Hypotheses \ {Selected} : Sum(h) < Sum(Selected)
    /\ \E h \in Hypotheses \ {Selected} : Sum(h) > 0

\* the places, in the order of iteration, of the keys of greatest sum
MaxPlaces ==
    {j \in 1..Len(call.order) :
        \A h \in Hypotheses :
            Sum(h) <= Sum(<<TheValue(call.order[j][1]), call.order[j][2]>>)}

KeyAt(j) == <<TheValue(call.order[j][1]), call.order[j][2]>>

\* C19 as stated: among the hypotheses of greatest sum the one met first
\* in the iteration is returned.
C19_FirstMaximumWins ==
    ArbiterReturned => Selected = KeyAt(Min(MaxPlaces))

\* C19, amended: among the hypotheses of greatest sum the one met last in
\* the iteration over tally is returned.
C19_LastMaximumWins ==
    ArbiterReturned => Selected = KeyAt(Max(MaxPlaces))

\* two hypotheses or more share the greatest sum, which is not 0
C19_Witness ==
    /\ ArbiterReturned
    /\ Cardinality(MaxPlaces) >= 2
    /\ Sum(Selected) > 0
    /\ Selected = KeyAt(Max(MaxPlaces))
    /\ Selected # KeyAt(Min(MaxPlaces))

\* the dicts the 5' hit and the 3' hit of the selected strand are taken from
FiveDict == IF ret.value.strand = "+" THEN call.dFront ELSE call.dBack
ThreeDict == IF ret.value.strand = "+" THEN call.dBack ELSE call.dFront

\* what is returned for the primer p looked up in d
SideOf(side, d, p) ==
    IF Missing(d, p) \/ TheValue(d)[p].score < call.min_score
    THEN side = Nothing
    ELSE side = Some(TheValue(d)[p])

TrimReturned == call.fn = "_trimBarCode" /\ ret.kind = "value"

\* the reverse complement, written out
Opposite(s) ==
    [i \in 1..Len(s) |->
        CASE s[Len(s) + 1 - i] = "A" -> "T"
          [] s[Len(s) + 1 - i] = "T" -> "A"
          [] s[Len(s) + 1 - i] = "C" -> "G"
          [] s[Len(s) + 1 - i] = "G" -> "C"]

\* the bases of s from index a to index b - 1, counted from 0
Between(s, a, b) == [i \in 1..(IF b > a THEN b - a ELSE 0) |-> s[a + i]]

\* the sequence the read is worked on: itself, or its reverse complement
Working ==
    IF call.combo.strand = "+" THEN call.read.sequence
    ELSE Opposite(call.read.sequence)

PolyAIndex == TheValue(ret.value.annotation.polyAend)

ThreePrimerStart == Len(call.read.sequence) - TheValue(call.combo.rc).sEnd

ThreeClip ==
    IF PolyAIndex >= 0 THEN PolyAIndex
    ELSE IF IsSome(call.combo.rc) THEN ThreePrimerStart
    ELSE Len(call.read.sequence)

FiveClip == IF IsSome(call.combo.fw) THEN TheValue(call.combo.fw).sEnd ELSE 0

\* C21: the sequence written for a read with a primer hit is the working
\* sequence (the read, or its reverse complement on strand '-') from the
\* 5' clip point to the 3' clip point; the 3' clip point is the poly-A
\* index if _findPolyA found one, else the start of the 3' primer if there
\* is a 3' hit, else the end; the 5' clip point is the end of the 5' primer
\* if there is a 5' hit, else 0.
C21_ClipPoints ==
    TrimReturned =>
        /\ PolyAIndex = FindPolyA(Working, MinANum,
                                  IF IsSome(call.combo.rc)
                                  THEN Some(ThreePrimerStart) ELSE Nothing)
        /\ ret.value.seq = Between(Working, FiveClip, ThreeClip)
        /\ ret.value.annotation.fiveend =
               (IF IsSome(call.combo.fw) THEN Some(FiveClip) ELSE Nothing)
        /\ ret.value.annotation.threeend =
               (IF IsSome(call.combo.rc) THEN Some(ThreePrimerStart) ELSE Nothing)

\* strand '-', a poly-A tail before the start of the 3' primer, a 5' hit
C21_Witness ==
    /\ TrimReturned
    /\ call.combo.strand = "-"
    /\ IsSome(call.combo.fw)
    /\ IsSome(call.combo.rc)
    /\ FiveClip = 2
    /\ PolyAIndex > FiveClip
    /\ PolyAIndex < ThreePrimerStart
    /\ Len(ret.value.seq) = PolyAIndex - FiveClip

\* the coordinates in the new name "{m}/{z}/{s1}_{e1}_CCS"
ReportedS1 == ret.value.annotation.ID[5]
ReportedE1 == ret.value.annotation.ID[7]

IsConsensusCall ==
    /\ TrimReturned
    /\ call.read.name = <<"m", "/", "1", "/", "ccs">>
    /\ call.change_read_id
    /\ FiveClip <= ThreeClip

\* C22: for a consensus read with a primer hit and 5' clip <= 3' clip, the
\* coordinates s1, e1 of the new name locate the trimmed sequence in the
\* read: on strand '+' it is read[s1:e1], on strand '-' it is the reverse
\* complement of read[e1:s1]; the distance of s1 and e1 is its length.
C22_CoordinateRemap ==
    IsConsensusCall =>
        IF call.combo.strand = "+"
        THEN /\ ret.value.seq = Between(call.read.sequence, ReportedS1, ReportedE1)
             /\ ReportedE1 - ReportedS1 = Len(ret.value.seq)
        ELSE /\ ret.value.seq =
                    Opposite(Between(call.read.sequence, ReportedE1, ReportedS1))
             /\ ReportedS1 - ReportedE1 = Len(ret.value.seq)

\* strand '-', both clip points inside the read, bases left
C22_Witness ==
    /\ IsConsensusCall
    /\ call.combo.strand = "-"
    /\ FiveClip = 2
    /\ PolyAIndex > FiveClip
    /\ ReportedE1 > 0
    /\ ReportedS1 = Len(call.read.sequence) - 2
    /\ ret.value.seq # Opposite(ret.value.seq)

\* the places of the working sequence, from the start of the 3' primer
\* less 50 on, where 8 A's begin that end before the start of the 3' primer
RunsBeforePrimer ==
    {i \in 0..(ThreePrimerStart - MinANum) :
        /\ i >= ThreePrimerStart - PolyAOffset
        /\ \A x \in 1..MinANum : Working[i + x] = "A"}

\* C23: with a 3' hit, a poly-A index is only returned for a run of 8 A's
\* that lies in the 50 bases before the start of the 3' primer, and it is
\* never greater than the start of the 3' primer.
C23_PolyABeforePrimer ==
    TrimReturned /\ IsSome(call.combo.rc) /\ PolyAIndex >= 0 =>
        /\ RunsBeforePrimer # {}
        /\ PolyAIndex <= ThreePrimerStart


(***************************************************************************)
(* The chunking of a phase.                                                *)
(***************************************************************************)
ChunksReturned == call.fn = "_chunkReads" /\ ret.kind = "value"

ReadCount == Len(call.reads)

\* min(workers, readCount)
SlotCount == IF call.cpus < ReadCount THEN call.cpus ELSE ReadCount

\* the least k with k * d >= a
Ceiling(a, d) == CHOOSE k \in 0..a : k * d >= a /\ \A j \in 0..(k - 1) : j * d < a

\* C24 as stated: min(workers, readCount) chunks are created.
C24_ChunksAreSlots ==
    ChunksReturned =>
        /\ ret.num_chunks = SlotCount
        /\ DOMAIN ret.chunks = 0..(SlotCount - 1)

\* C24, amended: the number of chunks created is ceil(readCount /
\* reads_per_chunk) with reads_per_chunk = ceil(readCount / min(workers,
\* readCount)); it is at least 1 and at most min(workers, readCount).
C24_ChunkCount ==
    ChunksReturned =>
        /\ ret.num_chunks = Ceiling(ReadCount, Ceiling(ReadCount, SlotCount))
        /\ DOMAIN ret.chunks = 0..(ret.num_chunks - 1)
        /\ ret.num_chunks >= 1
        /\ ret.num_chunks <= SlotCount

\* 4 reads and 3 workers: 2 chunks of 2 reads
C24_Witness ==
    /\ ChunksReturned
    /\ ReadCount = 4
    /\ call.cpus = 3
    /\ ret.num_chunks = 2

\* the records of one read in a chunk file of the phase
RecordsPerRead == IF call.phase = "trim" THEN 2 ELSE 1

\* the name of the read a record of a chunk file was written for
ReadNameOf(rec) ==
    IF call.phase = "trim" THEN SubSeq(rec.name, 1, Len(rec.name) - 1)
    ELSE rec.name

\* the names of the reads in the chunk files, from chunk c on
RECURSIVE ChunkedNames(_)
ChunkedNames(c) ==
    IF c \notin DOMAIN ret.chunks THEN <<>>
    ELSE [j \in 1..Len(ret.chunks[c]) |-> ReadNameOf(ret.chunks[c][j])]
         \o ChunkedNames(c + 1)

\* each read as often as it has records
ExpectedNames ==
    [j \in 1..(ReadCount * RecordsPerRead) |->
        call.reads[((j - 1) \div RecordsPerRead) + 1].name]

\* C28: reads_per_chunk is ceil(n / min(c, n)); the chunk files in the
\* order of their index hold the reads of the file in its order, each once;
\* no chunk file holds more than reads_per_chunk reads; every generated
\* chunk file name is written with at least one read and no other index is
\* written.
C28_ChunkingWellFormed ==
    ChunksReturned =>
        /\ ret.reads_per_chunk = Ceiling(ReadCount, SlotCount)
        /\ ChunkedNames(0) = ExpectedNames
        /\ DOMAIN ret.chunks = 0..(ret.num_chunks - 1)
        /\ \A c \in DOMAIN ret.chunks :
               /\ Len(ret.chunks[c]) >= RecordsPerRead
               /\ Len(ret.chunks[c]) <= ret.reads_per_chunk * RecordsPerRead

\* 5 reads and 4 workers in the trim phase: chunks of 2, 2 and 1 reads
C28_Witness ==
    /\ ChunksReturned
    /\ call.phase = "trim"
    /\ ReadCount = 5
    /\ call.cpus = 4
    /\ ret.reads_per_chunk = 2
    /\ DOMAIN ret.chunks = 0..2
    /\ Len(ret.chunks[2]) = 2


(***************************************************************************)
(* The workers of a phase and the combined dom file.                       *)
(***************************************************************************)
\* a step of the loop of lines 348-355: the next job is joined and its dom
\* file concatenated
IsJoinStep == pc \in {"trim_join", "chim_join"} /\ loc'.joined = loc.joined + 1

RECURSIVE ChunkDomsUpTo(_, _)
ChunkDomsUpTo(ph, k) ==
    IF k = 0 THEN <<>>
    ELSE ChunkDomsUpTo(ph, k - 1) \o fs.chunk_dom[ph][k - 1]

\* C26: in a phase that searches, whatever the order in which the workers
\* end, the combined dom file is absent until chunk 0 is joined and then
\* holds the dom files of the chunks joined so far in the order of the
\* chunks, each once, and the workers of these chunks have ended; when the
\* phase goes on to parse it, it holds the dom files of all the chunks.
C26_ConcatenationInOrder ==
    \A ph \in Phases :
        (pc \in {JoinPc(ph), ParsePc(ph)} /\ loc.need_cleanup[ph]) =>
            /\ pc = ParsePc(ph) => loc.joined = loc.chunked_fns[ph]
            /\ \A c \in 0..(loc.joined - 1) :
                   workers[c] # "running" /\ c \in DOMAIN fs.chunk_dom[ph]
            /\ IF loc.joined = 0 THEN ~IsSome(fs.dom[ph])
               ELSE /\ IsSome(fs.dom[ph])
                    /\ TheValue(fs.dom[ph]) = ChunkDomsUpTo(ph, loc.joined)

\* two chunks with rows, both in the combined file
C26_Witness ==
    /\ pc = "trim_parse"
    /\ loc.need_cleanup["trim"]
    /\ loc.chunked_fns["trim"] = 2
    /\ fs.chunk_dom["trim"][0] # <<>>
    /\ fs.chunk_dom["trim"][1] # <<>>
    /\ fs.chunk_dom["trim"][0] # fs.chunk_dom["trim"][1]
    /\ TheValue(fs.dom["trim"]) = fs.chunk_dom["trim"][0] \o fs.chunk_dom["trim"][1]

\* the rows phmmer reports for all the reads of a phase
SearchOutput(ph) ==
    IF ph = "trim"
    THEN PhmmerDom(Flatten([j \in 1..Len(TheValue(fs.reads)) |->
                               ChunkRecords(TheValue(fs.reads)[j], TRUE,
                                            cfg.opts.primer_search_window)]),
                   "trim")
    ELSE PhmmerDom(TheValue(fs.fl), "chim")

\* C27: when a run finds the combined dom file of a phase and does not
\* search, the file (one written by a run) holds the rows of the search of
\* all the chunks of the phase.
C27_PresentMeansComplete ==
    \A ph \in Phases :
        (/\ pc = ParsePc(ph)
         /\ ~loc.need_cleanup[ph]
         /\ TheValue(fs.dom[ph]) \notin ForeignDoms)
            => TheValue(fs.dom[ph]) = SearchOutput(ph)


(***************************************************************************)
(* The chimeric reads in the outputs.                                      *)
(***************************************************************************)
\* the reads of a FASTA file, by the key of their records
KeysOf(f) == {TheValue(f)[j].key : j \in 1..Len(TheValue(f))}

\* C29: once the chimera phase has merged its outputs, every record of the
\* chimeric FASTA is flagged chimeric and has its row in the merged primer
\* report; its read is in neither the non-chimeric FASTA nor the combined
\* FASTA, which holds the full-length non-chimeric records followed by the
\* non-full-length records and nothing else.
C29_ChimericNotInCombined ==
    pc \in {"chim_cleanup", "summary", "cleanup", "done"} =>
        /\ \A j \in 1..Len(TheValue(fs.flc)) :
               LET rec == TheValue(fs.flc)[j]
               IN  /\ rec.name.chimera = Some(1)
                   /\ \E k \in 1..Len(TheValue(fs.primer_report)) :
                          TheValue(fs.primer_report)[k] = rec.name
                   /\ rec.key \notin KeysOf(fs.all_reads)
        /\ KeysOf(fs.all_reads) = KeysOf(fs.flnc) \cup KeysOf(fs.nfl)
        /\ Len(TheValue(fs.all_reads))
               = Len(TheValue(fs.flnc)) + Len(TheValue(fs.nfl))
        /\ \A k \in 1..Len(TheValue(fs.all_reads)) :
               TheValue(fs.all_reads)[k] =
                   (IF k <= Len(TheValue(fs.flnc)) THEN TheValue(fs.flnc)[k]
                    ELSE TheValue(fs.nfl)[k - Len(TheValue(fs.flnc))])

\* a run with a chimeric read and a non-chimeric full-length read
C29_Witness ==
    /\ pc = "done"
    /\ Len(TheValue(fs.flc)) = 1
    /\ TheValue(fs.flc)[1].key = "flChim"
    /\ KeysOf(fs.all_reads) = {"flA"}
    /\ Len(TheValue(fs.primer_report)) = 3


(***************************************************************************)
(* _processPrimers and primer_out_fn.                                      *)
(***************************************************************************)
\* C30: until every record of the primer file has been read and accepted,
\* primer_out_fn is as it was before the call, absent or with what an
\* earlier run has written: no step of the loop changes it, and a call that
\* ends with ClassifierException, at whatever record, leaves it so.
C30_RejectedFileWritesNothing ==
    /\ [](pp_pc \in {"read", "write", "error"}
              => pp_out \in {Absent, OldLibrary})
    /\ [][(pp_pc' \in {"read", "write", "error"}) => pp_out' = pp_out]_vars

\* F0 and R0 were accepted, the third record is rejected, the library of an
\* earlier run is still there
C30_Witness ==
    /\ pp_pc = "error"
    /\ Len(pp_file) = 3
    /\ pp_st.exc.type = "ClassifierException"
    /\ Len(pp_st.primers) >= 2
    /\ pp_out = OldLibrary

=============================================================================
